---- MODULE Spec2Model ----
(***************************************************************************)
(* Chat orchestration pipeline of the super-agent service: the store      *)
(* (users, sessions, conversations, messages), the key-value cache in     *)
(* front of it, the process-wide ExecutionContextService, and processChat *)
(* run by concurrent requests, one action per await-delimited step.       *)
(***************************************************************************)
EXTENDS Integers, Sequences, FiniteSets, TLC

\* ------------------------------------------------------------------ bounds
MaxReqs == 2          \* requests (turns) the model runs, possibly concurrently
MaxConf == 100        \* confidenceScore is modelled in hundredths, 0..MaxConf
MaxCalls == 2         \* tool calls / tool results of one generateText result
MaxCallers == 2       \* callers of one service method in flight
MaxTime == 2          \* clock ticks
CacheTtl == 2         \* CACHE_TTL in clock ticks
MaxChars == 2         \* characters of a request field
MaxPlan == 2          \* execution steps of an analysis
MaxOps == 3           \* safeExecute calls after the module is initialised
MaxWrites == 3        \* summaries written to a session

\* ------------------------------------------------------- program constants
HighConf == 80        \* analysis.confidenceScore >= 0.8
MidConf == 40         \* analysis.confidenceScore >= 0.4
FallbackConf == 10    \* getFallbackAnalysis: confidenceScore 0.1
HISTORY_LIMIT == 50   \* MAX_CONVERSATION_HISTORY default of processChat
InvalidatedLimit == 10 \* the literal in cache.delete(`messages:${sessionId}:10`)
ConvLookupLimit == 1  \* getConversationsForSession(sessionId, 1)
ConvInvalidatedLimit == 5 \* the literal in cache.delete(`conversations:${sessionId}:5`)

Reqs == 1..MaxReqs
Users == {"u1", "u2"}
DefaultUser == "user_12345_67890"
AllUsers == Users \cup {DefaultUser}
NoUser == "none"      \* null session / absent row
Miss == "miss"        \* cache.get returned null
NoSid == 0            \* request without sessionId
ClientSid == 1        \* the session id clients send
ClientSids == {ClientSid}
SessionIds == 1..(ClientSid + 2 * MaxReqs)
MsgLimits == {InvalidatedLimit, HISTORY_LIMIT}
ConvLimits == {ConvLookupLimit, ConvInvalidatedLimit}
NoEntry == [hit |-> FALSE, val |-> << >>]
Entry(v) == [hit |-> TRUE, val |-> v]

VARIABLES
  users,        \* store: users.email per id: "absent" when no row, "" for email ''
  sessions,     \* store: sessions.userId per session id, NoUser when no row
  sessActive,   \* store: sessions.isActive per session id
  summary,      \* store: sessions.conversationSummary, the request that wrote it (0: null)
  convs,        \* store: conversations in createdAt order; convs[c] = sessionId
  msgs,         \* store: messages in insertion order
  isHealthy,    \* PrismaService.isHealthy
  dbReachable,  \* environment: the database answers
  userCache,    \* cache `user:{id}`: whether a User object is cached
  sessCache,    \* cache `session:{id}`: userId of the cached Session, or Miss
  convCache,    \* cache `conversations:{id}:{limit}`
  msgCache,     \* cache `messages:{id}:{limit}`
  nextSid,      \* next id generateSessionId returns
  now,          \* Date.now(); it advances with every message written
  stepResults,  \* ExecutionContextService.stepResults: stepId -> recording request (0: unset)
  appConnections, \* store: app_connections rows in insertion order
  brokerStatus, \* environment: what the broker reports for an app's connected account
  statusCache,  \* cache `connection_status:{connectedAccountId}`
  connListCache, \* cache `user_connections:{userId}:ACTIVE`: the apps listed; NoEntry
  upserts,      \* per caller of upsertConnection/connectApp: its position and locals
  analysisCache, \* cache `analysis:{queryHash}`: the analysis and the time it was set
  analyses,     \* per caller of performComprehensiveAnalysis: its position and locals
  lastOk,       \* per input: the analysis last obtained from the model and when it was set
  mockUserConnections, \* ComposioService.mockUserConnections[userId]: appName -> account id
  pinecone,     \* Pinecone index: per namespace, the ids of its records
  pgVectors,    \* PGVector index: metadata.appKey of the vector of each id, "none" without one
  ingested,     \* history: the <<appKey, toolName>> ever ingested, per store
  summaryCache, \* cache entry session_summary:<ClientSid>: a summary, 0 without one
  summaryCalls, \* per caller: position in updateSessionSummary or getSessionSummary
  req,          \* per request: position in processChat and its locals
  arg,          \* input of the pure function under check
  out           \* its result

\* the app-connection registry, the broker and the cache in front of it
upsertVars == <<connListCache, upserts>>
connVars == <<appConnections, brokerStatus, statusCache, upsertVars>>

\* the analysis cache and the calls of performComprehensiveAnalysis
analysisVars == <<analysisCache, analyses, lastOk>>

\* state of the services beside the chat pipeline
extVars == <<mockUserConnections, pinecone, pgVectors, ingested, summaryCache, summaryCalls>>

vars == <<users, sessions, sessActive, summary, convs, msgs, isHealthy, dbReachable,
          userCache, sessCache, convCache, msgCache, nextSid, now, stepResults, req, arg, out,
          connVars, analysisVars, extVars>>

\* The store and cache as one value, so that service methods compose.
World == [users |-> users, sessions |-> sessions, active |-> sessActive,
          summary |-> summary,
          convs |-> convs, msgs |-> msgs, healthy |-> isHealthy,
          reach |-> dbReachable, userCache |-> userCache, sessCache |-> sessCache,
          convCache |-> convCache, msgCache |-> msgCache, nextSid |-> nextSid]

SetWorld(w) ==
  /\ users' = w.users
  /\ sessions' = w.sessions
  /\ sessActive' = w.active
  /\ summary' = w.summary
  /\ convs' = w.convs
  /\ msgs' = w.msgs
  /\ isHealthy' = w.healthy
  /\ userCache' = w.userCache
  /\ sessCache' = w.sessCache
  /\ convCache' = w.convCache
  /\ msgCache' = w.msgCache
  /\ nextSid' = w.nextSid
  /\ UNCHANGED dbReachable

\* ------------------------------------------------------------ PrismaService
\* safeExecute: the operation runs iff isConnected() and it does not throw;
\* `c` is the operation's own constraint (foreign key, unique index, row found).
DbOk(w, c) == w.healthy /\ w.reach /\ c

\* isConnected() and the catch of safeExecute both clear isHealthy on failure.
AfterDb(w, c) == [w EXCEPT !.healthy = DbOk(w, c)]

\* ------------------------------------------------------------ UserDbService
\* findOrCreateUser(userId) without email: a cached user is returned as is;
\* otherwise the upsert creates the row with email '', which the unique index
\* on users.email refuses when another row holds '' already. The user found,
\* created or made up as fallback is cached.
FindOrCreateUser(w, u) ==
  LET clash == w.users[u] = "absent" /\ \E v \in AllUsers \ {u} : w.users[v] = ""
      ok == DbOk(w, ~clash)
  IN IF w.userCache[u]
     THEN w
     ELSE [AfterDb(w, ~clash) EXCEPT
             !.users[u] = IF ok /\ @ = "absent" THEN "" ELSE @,
             !.userCache[u] = TRUE]

\* ---------------------------------------------------------- SessionDbService
GetSession(w, s) ==
  IF w.sessCache[s] # Miss
  THEN [w |-> w, ret |-> w.sessCache[s]]
  ELSE LET ok == DbOk(w, TRUE)
           w1 == AfterDb(w, TRUE)
       IN IF ok /\ w.sessions[s] # NoUser
          THEN [w |-> [w1 EXCEPT !.sessCache[s] = w.sessions[s]],
                ret |-> w.sessions[s]]
          ELSE [w |-> w1, ret |-> NoUser]

FindOrCreateSession(w, u, sOpt) ==
  LET sid == IF sOpt = NoSid THEN w.nextSid ELSE sOpt
      w0 == IF sOpt = NoSid THEN [w EXCEPT !.nextSid = @ + 1] ELSE w
  IN IF w0.sessCache[sid] # Miss
     THEN [w |-> w0, id |-> sid, owner |-> w0.sessCache[sid]]
     ELSE LET w1 == FindOrCreateUser(w0, u)
              exists == w1.sessions[sid] # NoUser
              c == exists \/ w1.users[u] # "absent"
              ok == DbOk(w1, c)
              w2 == AfterDb(w1, c)
              owner == IF ok /\ exists THEN w1.sessions[sid] ELSE u
          IN [w |-> [w2 EXCEPT !.sessions[sid] = IF ok THEN owner ELSE @,
                               !.active[sid] = IF ok THEN TRUE ELSE @,
                               !.sessCache[sid] = owner],
              id |-> sid, owner |-> owner]

UpdateSessionActivity(w, s) == AfterDb(w, w.sessions[s] # NoUser)

UpdateSessionSummary(w, s, r) ==
  LET c == w.sessions[s] # NoUser
      ok == DbOk(w, c)
  IN IF ok
     THEN [AfterDb(w, c) EXCEPT !.summary[s] = r, !.sessCache[s] = Miss]
     ELSE AfterDb(w, c)

\* ------------------------------------------------------------------ helpers
Min(a, b) == IF a < b THEN a ELSE b

Rev(s) == [i \in 1..Len(s) |-> s[Len(s) + 1 - i]]

Take(s, k) == SubSeq(s, 1, Min(k, Len(s)))

Indices(s) == [i \in 1..Len(s) |-> i]

Range(s) == {s[i] : i \in 1..Len(s)}

\* conversation.findMany/findFirst({where: {sessionId}, orderBy: {createdAt: 'desc'}})
ConvsOf(w, s) ==
  LET OfSession(i) == w.convs[i] = s
  IN Rev(SelectSeq(Indices(w.convs), OfSession))

\* message.findMany({where: {conversationId}, orderBy: {timestamp: 'desc'}, take}),
\* then reverse(): messages are inserted with non-decreasing timestamps, so the
\* insertion order is a timestamp order.
LatestMessages(w, c, limit) ==
  LET InConv(i) == w.msgs[i].conv = c
  IN Rev(Take(Rev(SelectSeq(Indices(w.msgs), InConv)), limit))

\* ----------------------------------------------------- ConversationDbService
GetConversationsForSession(w, s, limit) ==
  IF w.convCache[<<s, limit>>].hit
  THEN [w |-> w, ret |-> w.convCache[<<s, limit>>].val]
  ELSE LET ok == DbOk(w, TRUE)
           list == IF ok THEN Take(ConvsOf(w, s), limit) ELSE << >>
       IN [w |-> [AfterDb(w, TRUE) EXCEPT !.convCache[<<s, limit>>] = Entry(list)],
           ret |-> list]

CreateConversation(w, s) ==
  LET c == w.sessions[s] # NoUser
      ok == DbOk(w, c)
      w1 == [AfterDb(w, c) EXCEPT
               !.convs = IF ok THEN Append(@, s) ELSE @,
               !.convCache[<<s, ConvInvalidatedLimit>>] = NoEntry]
  IN [w |-> w1, ret |-> IF ok THEN Len(w1.convs) ELSE 0]

\* ---------------------------------------------------------- MessageDbService
GetMessagesForSession(w, s, limit) ==
  IF w.msgCache[<<s, limit>>].hit
  THEN [w |-> w, ret |-> w.msgCache[<<s, limit>>].val, cached |-> TRUE]
  ELSE LET ok == DbOk(w, TRUE)
           w1 == AfterDb(w, TRUE)
           cs == ConvsOf(w, s)
           list == IF ok /\ cs # << >> THEN LatestMessages(w, cs[1], limit) ELSE << >>
       IN IF list = << >>
          THEN [w |-> w1, ret |-> << >>, cached |-> FALSE]
          ELSE [w |-> [w1 EXCEPT !.msgCache[<<s, limit>>] = Entry(list)],
                ret |-> list, cached |-> FALSE]

SaveMessageToSession(w, s, m) ==
  LET ok1 == DbOk(w, TRUE)
      w1 == AfterDb(w, TRUE)
      cs == ConvsOf(w, s)
      found == IF ok1 /\ cs # << >> THEN cs[1] ELSE 0
      c == w1.sessions[s] # NoUser
      ok2 == found = 0 /\ DbOk(w1, c)
      w2 == IF found # 0 THEN w1
            ELSE [AfterDb(w1, c) EXCEPT !.convs = IF ok2 THEN Append(@, s) ELSE @]
      conv == IF found # 0 THEN found ELSE IF ok2 THEN Len(w2.convs) ELSE 0
      ok3 == DbOk(w2, TRUE)
      w3 == [AfterDb(w2, TRUE) EXCEPT
               !.msgs = IF ok3 THEN Append(@, [m EXCEPT !.conv = conv]) ELSE @,
               !.msgCache[<<s, InvalidatedLimit>>] = NoEntry]
  IN IF conv = 0 THEN [w |-> w2, ret |-> 0]
     ELSE [w |-> w3, ret |-> IF ok3 THEN Len(w3.msgs) ELSE 0]

\* -------------------------------------------------- DatabaseIntegrationService
\* a context initialization that resolves user and session for the hard-coded user
InitializeContextDefaultUser(w, u, sOpt) ==
  LET w1 == FindOrCreateUser(w, DefaultUser)
      g == IF sOpt = NoSid THEN [w |-> w1, ret |-> NoUser] ELSE GetSession(w1, sOpt)
      mine == g.ret # NoUser /\ g.ret = DefaultUser
      f == FindOrCreateSession(g.w, DefaultUser, sOpt)
      sid == IF mine THEN sOpt ELSE f.id
      w2 == IF mine THEN g.w ELSE f.w
  IN [w |-> UpdateSessionActivity(w2, sid), sessionId |-> sid]

InitializeContext(w, u, sOpt) ==
  LET w1 == FindOrCreateUser(w, u)
      g == IF sOpt = NoSid THEN [w |-> w1, ret |-> NoUser] ELSE GetSession(w1, sOpt)
      mine == g.ret # NoUser /\ g.ret = u
      f == FindOrCreateSession(g.w, u, sOpt)
      sid == IF mine THEN sOpt ELSE f.id
      w2 == IF mine THEN g.w ELSE f.w
  IN [w |-> UpdateSessionActivity(w2, sid), sessionId |-> sid]

GetOrCreateConversation(w, s) ==
  LET g == GetSession(w, s)
      w1 == IF g.ret = NoUser THEN FindOrCreateSession(g.w, DefaultUser, s).w ELSE g.w
      e == GetConversationsForSession(w1, s, ConvLookupLimit)
      c == CreateConversation(e.w, s)
  IN IF Len(e.ret) > 0
     THEN [w |-> e.w, ret |-> e.ret[1], threw |-> FALSE]
     ELSE [w |-> c.w, ret |-> c.ret, threw |-> c.ret = 0]

GetConversationHistory(w, s, limit) == GetMessagesForSession(w, s, limit)

\* ------------------------------------------------------------- ChatService
\* SelectTier with the first threshold compared strictly
SelectTierStrict(conf, tool) ==
  IF conf > HighConf /\ tool THEN "tool"
  ELSE IF conf >= MidConf THEN "clarify"
  ELSE "chat"

\* Phase 2 of processChat: the branch taken for an analysis.
SelectTier(conf, tool) ==
  IF conf >= HighConf /\ tool THEN "tool"
  ELSE IF conf >= MidConf THEN "clarify"
  ELSE "chat"

\* Tool results as JavaScript values: what `x && typeof x === 'object'`,
\* `'error' in x` and `x.success === false` can tell apart.
\* The `error` property is absent, a string (the reason) or an object.
Undefined == [kind |-> "undefined", error |-> "absent", success |-> "absent"]
NonObjects == {[kind |-> k, error |-> "absent", success |-> "absent"] :
                 k \in {"undefined", "null", "falsy", "truthy"}}
Objects == [kind : {"object"}, error : {"absent", "string", "object"},
            success : {"absent", "false", "true", "other"}]
Arrays == {[kind |-> "array", error |-> "absent", success |-> "absent"]}
ResultValues == NonObjects \cup Arrays \cup Objects

\* 'error' in toolCallResult
HasError(v) == v.error # "absent"

Truthy(v) == v.kind \notin {"undefined", "null", "falsy"}
TypeofObject(v) == v.kind \in {"null", "array", "object"}

\* IsFailure without the `success === false` test
IsFailureErrorOnly(v) == Truthy(v) /\ TypeofObject(v) /\ HasError(v)

\* the two failure tests of the loop over toolCalls
IsFailure(v) ==
  \/ Truthy(v) /\ TypeofObject(v) /\ HasError(v)
  \/ Truthy(v) /\ TypeofObject(v) /\ v.success # "absent" /\ v.success = "false"

RECURSIVE ResultMap(_, _)
\* resultMap after toolResults.forEach: a result without toolCallId (id 0) is dropped,
\* a later result for the same id replaces the earlier one
ResultMap(results, id) ==
  IF results = << >> THEN Undefined
  ELSE LET last == results[Len(results)]
       IN IF last.id # 0 /\ last.id = id THEN last.result
          ELSE ResultMap(SubSeq(results, 1, Len(results) - 1), id)

\* `${toolCallResult.error}`: a string is interpolated as it is, an object as
\* the text "[object Object]"
Interpolate(error) == IF error = "string" THEN "reason" ELSE "[object Object]"

\* the entry of toolExecutionDetails for one tool call
ExecutionDetail(name, v) ==
  IF Truthy(v) /\ TypeofObject(v) /\ HasError(v)
  THEN [name |-> name, outcome |-> "failed", reason |-> Interpolate(v.error)]
  ELSE IF IsFailure(v)
  THEN [name |-> name, outcome |-> "failed", reason |-> ""]
  ELSE [name |-> name, outcome |-> "succeeded", reason |-> ""]

DefaultSuccess == "Task completed successfully using specialized tools."

\* responseText: the failure sentence with failedToolNames.join and
\* toolExecutionDetails.join, or executionResult.text || the default sentence
ResponseText(hadToolFailure, failedToolNames, details, text) ==
  IF hadToolFailure
  THEN [kind |-> "issues", names |-> failedToolNames, details |-> details]
  ELSE [kind |-> "text", names |-> << >>, details |-> << >>,
        text |-> IF text # "" THEN text ELSE DefaultSuccess]

\* executeWithTools after generateText returned: correlation, classification
\* and the response
ExecuteWithTools(calls, results, text) ==
  LET executed == [i \in 1..Len(calls) |->
                     [name |-> calls[i], result |-> ResultMap(results, calls[i]),
                      stepNumber |-> i]]
      Failed(i) == IsFailure(executed[i].result)
      failed == SelectSeq(Indices(calls), Failed)
      names == [i \in 1..Len(failed) |-> calls[failed[i]]]
      details == [i \in 1..Len(calls) |-> ExecutionDetail(calls[i], executed[i].result)]
  IN [executedTools |-> executed,
      failedToolNames |-> names,
      hadToolFailure |-> failed # << >>,
      response |-> ResponseText(failed # << >>, names, details, text)]

\* ------------------------------------------------------ AppConnectionDbService
\* The registry holds the connections of one user; a row is
\* [userId, appName, accountId, status].
ConnUser == "u1"

\* apps of the catalogue TOP_TOOLS_REGISTRY, in its order
AppOrder == <<"GMAIL", "GOOGLEDRIVE", "GOOGLEDOCS", "NOTION">>
Apps == Range(AppOrder)

\* callers of upsertConnection and connectApp
Callers == 1..MaxCallers

IdleUpsert == [pc |-> "idle", app |-> "", st |-> "", via |-> "", found |-> FALSE]

\* enum AppConnectionStatus
Statuses == {"INITIATED", "ACTIVE", "INACTIVE", "FAILED", "EXPIRED"}

\* the connected account id an app's connection is made with
AccountOf(a) == a

NoRow == [userId |-> NoUser, appName |-> "", accountId |-> "", status |-> "missing"]

ConnRow(u, a, x, st) == [userId |-> u, appName |-> a, accountId |-> x, status |-> st]

\* the rows the unique index (userId, appName) selects
RowsOf(rows, u, a) ==
  LET Match(i) == rows[i].userId = u /\ rows[i].appName = a
  IN SelectSeq(Indices(rows), Match)

\* getConnection: findUnique under safeExecute, null when the store is down
GetConnection(rows, dbOk, u, a) ==
  IF dbOk /\ RowsOf(rows, u, a) # << >>
  THEN rows[RowsOf(rows, u, a)[1]]
  ELSE NoRow

\* ------------------------------------------------------ ToolPreparationService
TopApps == 3
DefaultPriority == 5
NoPriority == 0
LowPriority == 2
HighPriority == 9

NoAccount == ""

\* the broker call throws
Unreachable == "unreachable"

\* a lookup that returns the account id of a row of any status
GetAccountIdAnyStatus(rows, dbOk, u, a) ==
  GetConnection(rows, dbOk, u, a).accountId

\* getConnectedAccountIdForUserAndApp: the account id of an ACTIVE row only
GetConnectedAccountIdForUserAndApp(rows, dbOk, u, a) ==
  LET connection == GetConnection(rows, dbOk, u, a)
  IN IF connection # NoRow /\ connection.status = "ACTIVE"
     THEN connection.accountId
     ELSE NoAccount

\* toolPriorities.find(p => p.appName === app)?.priority || 5
PriorityOf(toolPriorities, a) ==
  IF toolPriorities[a] = NoPriority THEN DefaultPriority ELSE toolPriorities[a]

\* the app names in the order the router gave them
KeepOrder(apps, toolPriorities) == apps

\* Array.prototype.sort((a, b) => b.priority - a.priority): stable, descending
RECURSIVE SortByPriority(_, _)
SortByPriority(apps, toolPriorities) ==
  IF apps = << >>
  THEN << >>
  ELSE LET n == Len(apps)
           sorted == SortByPriority(SubSeq(apps, 1, n - 1), toolPriorities)
           p == PriorityOf(toolPriorities, apps[n])
           k == Cardinality({i \in 1..Len(sorted) :
                               PriorityOf(toolPriorities, sorted[i]) >= p})
       IN SubSeq(sorted, 1, k) \o <<apps[n]>> \o SubSeq(sorted, k + 1, Len(sorted))

PrioritizedApps(appNames, toolPriorities) ==
  Take(SortByPriority(appNames, toolPriorities), TopApps)

\* a status check that accepts whatever the broker or the cache holds
StatusUsableAny(status) == TRUE

\* the status check accepts INITIATED and ACTIVE
StatusUsable(status) == status \in {"INITIATED", "ACTIVE"}

\* One element of prioritizedApps.map(async ...). `acc` carries the tools
\* collected (by app), appsNeedingConnection and the connection-status cache.
\* A broker call that throws rejects the app's promise: the app yields nothing.
\* `toolsFor` holds the apps for which tool names are found and fetched.
ProcessApp(acc, rows, dbOk, broker, toolsFor, a) ==
  LET connectedAccountId == GetConnectedAccountIdForUserAndApp(rows, dbOk, ConnUser, a)
      cached == acc.cache[a]
      status == IF cached # Miss THEN cached ELSE broker[a]
  IN IF connectedAccountId = NoAccount
     THEN [acc EXCEPT !.requiredConnections = Append(@, a)]
     ELSE IF status = Unreachable
     THEN acc
     ELSE IF ~StatusUsable(status)
     THEN [acc EXCEPT !.cache[a] = status, !.requiredConnections = Append(@, a)]
     ELSE [acc EXCEPT !.cache[a] = status,
                      !.consulted[a] = status,
                      !.tools = IF a \in toolsFor THEN @ \cup {a} ELSE @]

RECURSIVE ProcessApps(_, _, _, _, _, _)
ProcessApps(acc, rows, dbOk, broker, toolsFor, apps) ==
  IF apps = << >>
  THEN acc
  ELSE ProcessApps(ProcessApp(acc, rows, dbOk, broker, toolsFor, apps[1]),
                   rows, dbOk, broker, toolsFor, Tail(apps))

\* prepareToolsForExecution. `routing` is the router's answer (fresh or from
\* the routing cache) or its failure; `consulted` records, for each app whose
\* tools may be offered, the status the check relied on.
PrepareToolsForExecution(rows, dbOk, broker, cache, p) ==
  LET appNames == IF p.routing.ok THEN p.routing.appNames ELSE p.recommendedApps
      prioritizedApps == PrioritizedApps(appNames, p.toolPriorities)
      start == [tools |-> {}, requiredConnections |-> << >>, cache |-> cache,
                consulted |-> [a \in Apps |-> Miss], prioritizedApps |-> << >>]
  IN IF p.recommendedApps = << >>
     THEN start
     ELSE [ProcessApps(start, rows, dbOk, broker, p.toolsFor, prioritizedApps)
             EXCEPT !.prioritizedApps = prioritizedApps]

\* handleHighConfidenceToolExecution: with no tool prepared the chat model is
\* not called; otherwise executeWithTools runs with the prepared tools.
NeedAccess(apps) == [kind |-> "needAccess", apps |-> apps]
NoToolAccess == [kind |-> "noTools", apps |-> << >>]

HandleHighConfidenceToolExecution(prep, run) ==
  IF prep.tools = {}
  THEN [response |-> IF Len(prep.requiredConnections) > 0
                     THEN NeedAccess(prep.requiredConnections)
                     ELSE NoToolAccess,
        executedTools |-> << >>,
        requiredConnections |-> prep.requiredConnections,
        offered |-> {}]
  ELSE [response |-> ExecuteWithTools(run.calls, run.results, run.text).response,
        executedTools |-> ExecuteWithTools(run.calls, run.results, run.text).executedTools,
        requiredConnections |-> prep.requiredConnections,
        offered |-> prep.tools]

\* ------------------------------------------------------------ AnalysisService
\* A message content: its first 50 characters and the rest.
Content(head, tail) == [head |-> head, tail |-> tail]

\* history.slice(-3)
HashWindow == 3

LastOf(s, k) == SubSeq(s, Len(s) - Min(k, Len(s)) + 1, Len(s))

\* Array.prototype.join: the texts, a sequence of characters each, with the
\* separator between them
RECURSIVE Join(_, _)
Join(texts, sep) ==
  IF texts = << >> THEN << >>
  ELSE IF Len(texts) = 1 THEN texts[1]
  ELSE texts[1] \o <<sep>> \o Join(Tail(texts), sep)

\* history.slice(-3).map(m => m.content.substring(0, 50))
HistorySnippets(history) ==
  [i \in 1..Len(LastOf(history, HashWindow)) |-> LastOf(history, HashWindow)[i].head]

\* generateQueryHash: `${query}:${historySnippet}` with the snippets joined by
\* '|'; the base64 encoding of that text is one-to-one, so the text stands
\* for the key
GenerateQueryHash(query, history) ==
  query \o <<":">> \o Join(HistorySnippets(history), "|")

\* the inputs analyze is called with: two histories with the same first 50
\* characters in each of their last three messages, and another query
AnalysisInputs ==
  {[query |-> <<"q", "1">>,
    history |-> <<Content(<<"h", "2">>, ""), Content(<<"h", "1">>, ""),
                  Content(<<"h", "1">>, ""), Content(<<"h", "1">>, "t1")>>],
   [query |-> <<"q", "1">>,
    history |-> <<Content(<<"h", "1">>, ""), Content(<<"h", "1">>, ""),
                  Content(<<"h", "1">>, "t2")>>],
   [query |-> <<"q", "2">>, history |-> << >>]}

AnalysisKeys == {GenerateQueryHash(i.query, i.history) : i \in AnalysisInputs}

\* getFallbackAnalysis
GetFallbackAnalysis ==
  [conf |-> FallbackConf, tool |-> FALSE, steps |-> 1, state |-> "information_gathering",
   recommendedApps |-> << >>]

\* what generateObject returns when the call and the schema validation succeed
ModelAnalyses ==
  {[conf |-> HighConf, tool |-> TRUE, steps |-> 2, state |-> "ready_to_execute",
    recommendedApps |-> <<"GMAIL">>],
   [conf |-> MidConf, tool |-> FALSE, steps |-> 1, state |-> "information_gathering",
    recommendedApps |-> << >>]}

NoAnalysis == [conf |-> 0, tool |-> FALSE, steps |-> 0, state |-> "", recommendedApps |-> << >>]

\* a lookup that never finds an entry
CachedNever(cache, k, t) == NoEntry

\* redis GET of a key SETEX wrote at time `at` with the TTL
CachedAnalysis(cache, k, t) ==
  IF cache[k].hit /\ t < cache[k].val.at + CacheTtl THEN cache[k] ELSE NoEntry

\* a failed analysis stored like a successful one
StoreAlways(cache, k, ok, a, t) == [cache EXCEPT ![k] = Entry([a |-> a, at |-> t])]

\* setCachedAnalysis is reached only when generateObject returned
StoreAnalysis(cache, k, ok, a, t) ==
  IF ok THEN [cache EXCEPT ![k] = Entry([a |-> a, at |-> t])] ELSE cache

IdleAnalysis == [pc |-> "idle", input |-> 0, fresh |-> FALSE, prior |-> NoAnalysis,
                 invoked |-> FALSE, ok |-> FALSE, result |-> NoAnalysis]

AnalysisInit ==
  /\ analysisCache = [k \in AnalysisKeys |-> NoEntry]
  /\ analyses = [c \in Callers |-> IdleAnalysis]
  /\ lastOk = [i \in AnalysisInputs |-> NoEntry]

\* performComprehensiveAnalysis up to the model call: a cached analysis is
\* returned as is. `fresh` and `prior` keep whether a call with the same
\* input obtained an analysis from the model less than the TTL ago, and which.
AnalysisLookup(c, i) ==
  LET k == GenerateQueryHash(i.query, i.history)
      cached == CachedAnalysis(analysisCache, k, now)
      last == lastOk[i]
      fresh == last.hit /\ now < last.val.at + CacheTtl
      call == [IdleAnalysis EXCEPT !.input = i, !.fresh = fresh,
                                   !.prior = IF fresh THEN last.val.a ELSE NoAnalysis]
  IN /\ analyses[c].pc = "idle"
     /\ analyses' = [analyses EXCEPT ![c] =
                       IF cached.hit
                       THEN [call EXCEPT !.pc = "done", !.ok = TRUE, !.result = cached.val.a]
                       ELSE [call EXCEPT !.pc = "model"]]
     /\ UNCHANGED <<sessActive, extVars, users, sessions, summary, convs, msgs, isHealthy, dbReachable, userCache,
                    sessCache, convCache, msgCache, nextSid, now, stepResults, req, arg, out,
                    connVars, analysisCache, lastOk>>

\* generateObject returns an analysis, which is cached, or throws, and then
\* the fallback analysis is returned
AnalysisModel(c, ok, a) ==
  LET i == analyses[c].input
      k == GenerateQueryHash(i.query, i.history)
  IN /\ analyses[c].pc = "model"
     /\ analysisCache' = StoreAnalysis(analysisCache, k, ok, a, now)
     /\ analyses' = [analyses EXCEPT ![c] =
                       [@ EXCEPT !.pc = "done", !.invoked = TRUE, !.ok = ok,
                                 !.result = IF ok THEN a ELSE GetFallbackAnalysis]]
     /\ lastOk' = IF ok THEN [lastOk EXCEPT ![i] = Entry([a |-> a, at |-> now])] ELSE lastOk
     /\ UNCHANGED <<sessActive, extVars, users, sessions, summary, convs, msgs, isHealthy, dbReachable, userCache,
                    sessCache, convCache, msgCache, nextSid, now, stepResults, req, arg, out,
                    connVars>>

\* the caller has the analysis
AnalysisReturn(c) ==
  /\ analyses[c].pc = "done"
  /\ analyses' = [analyses EXCEPT ![c] = IdleAnalysis]
  /\ UNCHANGED <<sessActive, extVars, users, sessions, summary, convs, msgs, isHealthy, dbReachable, userCache,
                 sessCache, convCache, msgCache, nextSid, now, stepResults, req, arg, out,
                 connVars, analysisCache, lastOk>>

\* time passes
Tick ==
  /\ now < MaxTime
  /\ now' = now + 1
  /\ UNCHANGED <<sessActive, extVars, users, sessions, summary, convs, msgs, isHealthy, dbReachable, userCache,
                 sessCache, convCache, msgCache, nextSid, stepResults, req, arg, out,
                 connVars, analysisVars>>

\* ----------------------------------------------------------- processChat
IdleReq == [pc |-> "idle", user |-> NoUser, sid |-> NoSid, ctx |-> 0,
            hist |-> << >>, cached |-> FALSE, conf |-> 0, tool |-> FALSE,
            tier |-> "none", pctx |-> 0, conv |-> 0, userMsg |-> 0,
            asstMsg |-> 0, wfail |-> "none"]

\* analyses the pipeline is run with, one per tier
PipelineAnalyses == {[conf |-> FallbackConf, tool |-> FALSE],
                     [conf |-> MidConf, tool |-> FALSE],
                     [conf |-> HighConf, tool |-> TRUE]}

\* A request arrives; processChat validates userQuery and userId. Requests and
\* users are interchangeable, so the slots are taken in order and the first
\* request is the one of "u1".
Start(r, u, s, valid) ==
  /\ req[r].pc = "idle"
  /\ IF r = 1 THEN TRUE ELSE req[r - 1].pc # "idle"
  /\ r = 1 => u = "u1"
  /\ req' = [req EXCEPT ![r] = IF valid
                                 THEN [@ EXCEPT !.pc = "init", !.user = u, !.sid = s]
                                 ELSE [@ EXCEPT !.pc = "rejected"]]
  /\ UNCHANGED <<sessActive, extVars, analysisVars, connVars, users, sessions, summary, convs, msgs, isHealthy, dbReachable,
                 userCache, sessCache, convCache, msgCache, nextSid, now, stepResults, arg, out>>

\* stage 1: databaseIntegrationService.initializeContext(userId, sessionId)
InitContext(r) ==
  /\ req[r].pc = "init"
  /\ LET c == InitializeContext(World, req[r].user, req[r].sid)
     IN /\ SetWorld(c.w)
        /\ req' = [req EXCEPT ![r] = [@ EXCEPT !.pc = "history", !.ctx = c.sessionId]]
  /\ UNCHANGED <<extVars, analysisVars, connVars, now, stepResults, arg, out>>

\* stage 1: getConversationHistory(dbContext.sessionId, HISTORY_LIMIT)
LoadHistory(r) ==
  /\ req[r].pc = "history"
  /\ LET h == GetConversationHistory(World, req[r].ctx, HISTORY_LIMIT)
     IN /\ SetWorld(h.w)
        /\ req' = [req EXCEPT ![r] = [@ EXCEPT !.pc = "analyze", !.hist = h.ret,
                                               !.cached = h.cached]]
  /\ UNCHANGED <<extVars, analysisVars, connVars, now, stepResults, arg, out>>

\* stage 2: performComprehensiveAnalysis never throws (fallback analysis)
Analyze(r) ==
  /\ req[r].pc = "analyze"
  /\ \E a \in PipelineAnalyses :
       req' = [req EXCEPT ![r] = [@ EXCEPT !.pc = "dispatch", !.conf = a.conf,
                                           !.tool = a.tool, !.hist = << >>,
                                           !.cached = FALSE]]
  /\ UNCHANGED <<sessActive, extVars, analysisVars, connVars, users, sessions, summary, convs, msgs, isHealthy, dbReachable,
                 userCache, sessCache, convCache, msgCache, nextSid, now, stepResults, arg, out>>

\* stages 3-4 up to the chat-model call: the tier, and the replies that need no model
\* (no tools prepared; clarificationNeeded non-empty). `direct`: such a reply applies;
\* `llmOk`: generateText of the clarification or conversational tier returns.
Dispatch(r, direct, llmOk) ==
  /\ req[r].pc = "dispatch"
  /\ LET tier == SelectTier(req[r].conf, req[r].tool)
         next == IF tier = "tool" THEN (IF direct THEN "persist" ELSE "tools")
                 ELSE IF tier = "clarify" /\ direct THEN "persist"
                 ELSE IF llmOk THEN "persist" ELSE "failed"
     IN req' = [req EXCEPT ![r] = [@ EXCEPT !.pc = next, !.tier = tier]]
  /\ UNCHANGED <<sessActive, extVars, analysisVars, connVars, users, sessions, summary, convs, msgs, isHealthy, dbReachable,
                 userCache, sessCache, convCache, msgCache, nextSid, now, stepResults, arg, out>>

\* ExecutionContextService.getStepResult(stepId): the entry of the one map of
\* the service, which no request clears
GetStepResult(id) == stepResults[id]

\* executeWithTools: generateText with tools; it throws, or returns the tool calls,
\* each of which is recorded with addStepResult (tool call ids are unique: r)
ToolRun(r, llmOk, called) ==
  /\ req[r].pc = "tools"
  /\ req' = [req EXCEPT ![r] = [@ EXCEPT !.pc = IF llmOk THEN "persist" ELSE "failed"]]
  /\ stepResults' = IF llmOk /\ called THEN [stepResults EXCEPT ![r] = r]
                    ELSE stepResults
  /\ UNCHANGED <<sessActive, extVars, analysisVars, connVars, users, sessions, summary, convs, msgs, isHealthy, dbReachable,
                 userCache, sessCache, convCache, msgCache, nextSid, now, arg, out>>

\* completeConversationFlow rethrowing what it caught
AfterFlowErrorRethrow == "failed"

\* completeConversationFlow: its catch logs the error and does not rethrow, so
\* updateConversationHistory returns and processChat returns finalResponse
AfterFlowError == "done"

Message(r, role) == [conv |-> 0, role |-> role, ts |-> now, req |-> r]

\* stage 5, updateConversationHistory: initializeContext(userId, request.sessionId),
\* then completeConversationFlow up to getOrCreateConversation
PersistInit(r) ==
  /\ req[r].pc = "persist"
  /\ LET c == InitializeContext(World, req[r].user, req[r].sid)
         g == GetOrCreateConversation(c.w, c.sessionId)
     IN /\ SetWorld(g.w)
        /\ req' = [req EXCEPT ![r] =
             [@ EXCEPT !.pc = IF g.threw THEN AfterFlowError ELSE "saveUser",
                       !.conf = 0, !.tool = FALSE, !.tier = "none",
                       !.pctx = c.sessionId, !.conv = g.ret,
                       !.wfail = IF g.threw THEN "conversation" ELSE "none"]]
  /\ UNCHANGED <<extVars, analysisVars, connVars, now, stepResults, arg, out>>

\* completeConversationFlow: saveUserMessage
SaveUser(r) ==
  /\ req[r].pc = "saveUser"
  /\ LET s == SaveMessageToSession(World, req[r].pctx, Message(r, "user"))
     IN /\ SetWorld(s.w)
        /\ req' = [req EXCEPT ![r] =
             [@ EXCEPT !.pc = IF s.ret = 0 THEN AfterFlowError ELSE "saveAssistant",
                       !.userMsg = s.ret,
                       !.wfail = IF s.ret = 0 THEN "user" ELSE "none"]]
  /\ now' = now + 1
  /\ UNCHANGED <<extVars, analysisVars, connVars, stepResults, arg, out>>

\* completeConversationFlow: saveAssistantResponse
SaveAssistant(r) ==
  /\ req[r].pc = "saveAssistant"
  /\ LET s == SaveMessageToSession(World, req[r].pctx, Message(r, "assistant"))
     IN /\ SetWorld(s.w)
        /\ req' = [req EXCEPT ![r] =
             [@ EXCEPT !.pc = IF s.ret = 0 THEN AfterFlowError ELSE "summary",
                       !.asstMsg = s.ret,
                       !.wfail = IF s.ret = 0 THEN "assistant" ELSE "none"]]
  /\ now' = now + 1
  /\ UNCHANGED <<extVars, analysisVars, connVars, stepResults, arg, out>>

\* completeConversationFlow: updateSessionSummary (it never throws), then
\* processChat returns finalResponse
UpdateSummary(r) ==
  /\ req[r].pc = "summary"
  /\ LET w == UpdateSessionSummary(World, req[r].pctx, r)
     IN /\ SetWorld(w)
        /\ req' = [req EXCEPT ![r] =
             [@ EXCEPT !.pc = "done",
                       !.wfail = IF w.summary[req[r].pctx] = r THEN "none"
                                 ELSE "summary"]]
  /\ UNCHANGED <<extVars, analysisVars, connVars, now, stepResults, arg, out>>

\* ------------------------------------------------------------ environment
\* The database stops or resumes answering. Once isHealthy is cleared no
\* operation reaches the database, so its state is followed only until then.
StoreFails ==
  /\ isHealthy
  /\ dbReachable
  /\ dbReachable' = FALSE
  /\ UNCHANGED <<sessActive, extVars, analysisVars, connVars, users, sessions, summary, convs, msgs, isHealthy, userCache, sessCache,
                 convCache, msgCache, nextSid, now, stepResults, req, arg, out>>

StoreRecovers ==
  /\ isHealthy
  /\ ~dbReachable
  /\ dbReachable' = TRUE
  /\ UNCHANGED <<sessActive, extVars, analysisVars, connVars, users, sessions, summary, convs, msgs, isHealthy, userCache, sessCache,
                 convCache, msgCache, nextSid, now, stepResults, req, arg, out>>

\* A cache entry reaches its TTL. Entries of generated session ids are read only
\* by the step that wrote them, so only the keys a client can name expire here.
ExpireUser(u) ==
  /\ userCache[u]
  /\ userCache' = [userCache EXCEPT ![u] = FALSE]
  /\ UNCHANGED <<sessActive, extVars, analysisVars, connVars, users, sessions, summary, convs, msgs, isHealthy, dbReachable,
                 sessCache, convCache, msgCache, nextSid, now, stepResults, req,
                 arg, out>>

ExpireSession(s) ==
  /\ sessCache[s] # Miss
  /\ sessCache' = [sessCache EXCEPT ![s] = Miss]
  /\ UNCHANGED <<sessActive, extVars, analysisVars, connVars, users, sessions, summary, convs, msgs, isHealthy, dbReachable,
                 userCache, convCache, msgCache, nextSid, now, stepResults, req, arg, out>>

ExpireConversations(k) ==
  /\ convCache[k].hit
  /\ convCache' = [convCache EXCEPT ![k] = NoEntry]
  /\ UNCHANGED <<sessActive, extVars, analysisVars, connVars, users, sessions, summary, convs, msgs, isHealthy, dbReachable,
                 userCache, sessCache, msgCache, nextSid, now, stepResults, req, arg, out>>

ExpireMessages(k) ==
  /\ msgCache[k].hit
  /\ msgCache' = [msgCache EXCEPT ![k] = NoEntry]
  /\ UNCHANGED <<sessActive, extVars, analysisVars, connVars, users, sessions, summary, convs, msgs, isHealthy, dbReachable,
                 userCache, sessCache, convCache, nextSid, now, stepResults, req, arg, out>>

\* ---------------------------------------------------------- specification
\* the tables but users, the caches and the requests
StoreTables ==
  /\ sessions = [s \in SessionIds |-> NoUser]
  /\ sessActive = [s \in SessionIds |-> TRUE]
  /\ summary = [s \in SessionIds |-> 0]
  /\ convs = << >>
  /\ msgs = << >>
  /\ userCache = [u \in AllUsers |-> FALSE]
  /\ sessCache = [s \in SessionIds |-> Miss]
  /\ convCache = [k \in SessionIds \X ConvLimits |-> NoEntry]
  /\ msgCache = [k \in SessionIds \X MsgLimits |-> NoEntry]
  /\ nextSid = ClientSid + 1
  /\ now = 0
  /\ stepResults = [i \in Reqs |-> 0]
  /\ req = [r \in Reqs |-> IdleReq]

\* everything but the users table, the store client connected
StoreEmpty ==
  /\ StoreTables
  /\ isHealthy = TRUE
  /\ dbReachable = TRUE

StoreInit ==
  /\ users \in [AllUsers -> {"absent"}]
  /\ StoreEmpty

\* tool names; the id of a vector is the name of its tool
ToolNames == {"t1", "t2"}

\* the apps tools are ingested for
VectorApps == {"GMAIL", "NOTION"}

VectorStores == {"pinecone", "pgvector"}

\* topK of a search when the caller names none
DefaultTopK == 3

\* a caller of the summary functions that is in no call
IdleSummaryCall == [pc |-> "idle", val |-> 0, ret |-> 0]

\* nothing cached, no call under way
SummaryInit ==
  /\ summaryCache = 0
  /\ summaryCalls = [c \in Callers |-> IdleSummaryCall]

\* both indexes are empty
VectorInit ==
  /\ pinecone = [a \in Apps |-> {}]
  /\ pgVectors = [t \in ToolNames |-> "none"]
  /\ ingested = [v \in VectorStores |-> {}]

\* no app connected, nothing cached
ConnInit ==
  /\ appConnections = << >>
  /\ brokerStatus = [a \in Apps |-> "ACTIVE"]
  /\ statusCache = [a \in Apps |-> Miss]
  /\ connListCache = NoEntry
  /\ upserts = [c \in Callers |-> IdleUpsert]
  /\ mockUserConnections = [a \in Apps |-> NoAccount]
  /\ VectorInit
  /\ SummaryInit

Init == StoreInit /\ ConnInit /\ AnalysisInit /\ arg = 0 /\ out = 0

Settled(r) == req[r].pc \in {"idle", "rejected", "done", "failed"}

\* callers that issue one request at a time
StartSerial(r, u, s, valid) ==
  /\ \A q \in Reqs : Settled(q)
  /\ Start(r, u, s, valid)

Steps ==
  \/ \E r \in Reqs : InitContext(r)
  \/ \E r \in Reqs : LoadHistory(r)
  \/ \E r \in Reqs : Analyze(r)
  \/ \E r \in Reqs, direct \in BOOLEAN, llmOk \in BOOLEAN : Dispatch(r, direct, llmOk)
  \/ \E r \in Reqs, llmOk \in BOOLEAN, called \in BOOLEAN : ToolRun(r, llmOk, called)
  \/ \E r \in Reqs : PersistInit(r)
  \/ \E r \in Reqs : SaveUser(r)
  \/ \E r \in Reqs : SaveAssistant(r)
  \/ \E r \in Reqs : UpdateSummary(r)
  \/ StoreFails
  \/ StoreRecovers
  \/ \E u \in AllUsers : ExpireUser(u)
  \/ \E s \in ClientSids : ExpireSession(s)
  \/ \E k \in ClientSids \X ConvLimits : ExpireConversations(k)
  \/ \E k \in ClientSids \X MsgLimits : ExpireMessages(k)

Next ==
  \/ \E r \in Reqs, u \in Users, s \in {NoSid, ClientSid}, valid \in BOOLEAN :
       Start(r, u, s, valid)
  \/ Steps

\* requests may overlap
Spec == Init /\ [][Next]_vars

NextSerial ==
  \/ \E r \in Reqs, u \in Users, s \in {NoSid, ClientSid}, valid \in BOOLEAN :
       StartSerial(r, u, s, valid)
  \/ Steps

\* each request starts after the previous one has returned
SpecSerial == Init /\ [][NextSerial]_vars

\* ------------------------------- the two awaits of updateConversationHistory
\* updateConversationHistory: initializeContext(request.userId, request.sessionId)
PersistContext(r) ==
  /\ req[r].pc = "persist"
  /\ LET c == InitializeContext(World, req[r].user, req[r].sid)
     IN /\ SetWorld(c.w)
        /\ req' = [req EXCEPT ![r] =
             [@ EXCEPT !.pc = "conversation", !.conf = 0, !.tool = FALSE,
                       !.tier = "none", !.pctx = c.sessionId]]
  /\ UNCHANGED <<extVars, analysisVars, connVars, now, stepResults, arg, out>>

\* completeConversationFlow up to getOrCreateConversation, which other
\* requests and cache expiries may precede
PersistConversation(r) ==
  /\ req[r].pc = "conversation"
  /\ LET g == GetOrCreateConversation(World, req[r].pctx)
     IN /\ SetWorld(g.w)
        /\ req' = [req EXCEPT ![r] =
             [@ EXCEPT !.pc = IF g.threw THEN AfterFlowError ELSE "saveUser",
                       !.conv = g.ret,
                       !.wfail = IF g.threw THEN "conversation" ELSE "none"]]
  /\ UNCHANGED <<extVars, analysisVars, connVars, now, stepResults, arg, out>>

NextOwner ==
  \/ Next
  \/ \E r \in Reqs : PersistContext(r)
  \/ \E r \in Reqs : PersistConversation(r)

\* concurrent requests whose persistence stage is interleaved with the others
SpecOwner == Init /\ [][NextOwner]_vars

\* ------------------------------------------------ sessions that are deactivated
\* deactivateSession: isActive is cleared on the row, which must exist, and the
\* cache entry of the session is deleted
DeactivateSession(s) ==
  LET c == sessions[s] # NoUser
      ok == DbOk(World, c)
  IN /\ sessActive' = IF ok THEN [sessActive EXCEPT ![s] = FALSE] ELSE sessActive
     /\ sessCache' = IF ok THEN [sessCache EXCEPT ![s] = Miss] ELSE sessCache
     /\ isHealthy' = ok
     /\ UNCHANGED <<extVars, analysisVars, connVars, users, sessions, summary, convs, msgs,
                    dbReachable, userCache, convCache, msgCache, nextSid, now, stepResults,
                    req, arg, out>>

NextSessions ==
  \/ NextSerial
  \/ \E s \in ClientSids : DeactivateSession(s)

\* one request at a time, and sessions are deactivated between or during turns
SpecSessions == Init /\ [][NextSessions]_vars

\* ------------------------------------------- the tier selection on its own
Pending(v) == [done |-> FALSE, val |-> v]
Result(v) == [done |-> TRUE, val |-> v]

Analyses == [conf : 0..MaxConf, tool : BOOLEAN]

InitTier ==
  StoreInit /\ ConnInit /\ AnalysisInit /\ arg \in Analyses /\ out = Pending("none")

Route ==
  /\ ~out.done
  /\ out' = Result(SelectTier(arg.conf, arg.tool))
  /\ UNCHANGED <<sessActive, extVars, analysisVars, connVars, users, sessions, summary, convs, msgs, isHealthy, dbReachable,
                 userCache, sessCache, convCache, msgCache, nextSid, now, stepResults, req, arg>>

SpecTier == InitTier /\ [][Route]_vars

\* ------------------------------- executeWithTools on one generateText result
SeqsUpTo(S, n) == UNION {[1..k -> S] : k \in 0..n}

\* executionResult.text: empty, or the model's final text
Texts == {"", "final text"}

ToolRuns == [calls : {[i \in 1..n |-> i] : n \in 0..MaxCalls},
             results : SeqsUpTo([id : 0..MaxCalls, result : ResultValues], MaxCalls),
             text : Texts]

InitTools ==
  /\ StoreInit
  /\ ConnInit
  /\ AnalysisInit
  /\ arg \in ToolRuns
  /\ out = Pending(ExecuteWithTools(<< >>, << >>, ""))

Execute ==
  /\ ~out.done
  /\ out' = Result(ExecuteWithTools(arg.calls, arg.results, arg.text))
  /\ UNCHANGED <<sessActive, extVars, analysisVars, connVars, users, sessions, summary, convs, msgs, isHealthy, dbReachable,
                 userCache, sessCache, convCache, msgCache, nextSid, now, stepResults, req, arg>>

SpecTools == InitTools /\ [][Execute]_vars

\* ------------------------- prepareToolsForExecution on one analysis and registry
\* the sublists of the catalogue
AppLists ==
  {LET In(a) == a \in S IN SelectSeq(AppOrder, In) : S \in SUBSET Apps}

\* analysis.recommendedApps
RecommendedLists == {l \in AppLists : Range(l) \subseteq {"GMAIL", "NOTION"}}

\* routeAppsWithLLM: the app names of the catalogue it returns, or its failure
Routings == {[ok |-> FALSE, appNames |-> << >>]} \cup [ok : {TRUE}, appNames : AppLists]

\* analysis.toolPriorities: an entry per app, or none
PriorityLists ==
  {[a \in Apps |-> IF a = "GMAIL" THEN lo ELSE IF a = "NOTION" THEN hi ELSE NoPriority] :
     lo \in {NoPriority, LowPriority}, hi \in {NoPriority, HighPriority}}

PrepInputs == [recommendedApps : RecommendedLists, routing : Routings,
               toolPriorities : PriorityLists, toolsFor : {{}, Apps}]

\* the generateText result of the turn when tools are offered
PrepRun == [calls |-> <<1>>,
            results |-> <<[id |-> 1, result |-> [kind |-> "object", error |-> "absent",
                                                 success |-> "true"]]>>,
            text |-> "final text"]

\* the app names prepareToolsForExecution ranks
AppNamesOf(p) == IF p.routing.ok THEN p.routing.appNames ELSE p.recommendedApps

\* the answers of the broker the status check tells apart
BrokerAnswers == {"INITIATED", "ACTIVE", "EXPIRED", Unreachable}

\* what the registry and the broker hold for one app: no row or a row of some
\* status, and for an ACTIVE row what the broker answers
ConnStates ==
  [row : {"missing"} \cup (Statuses \ {"ACTIVE"}), broker : {"ACTIVE"}]
  \cup [row : {"ACTIVE"}, broker : BrokerAnswers]

RowsFrom(st) ==
  LET apps == LET Has(a) == a \in DOMAIN st /\ st[a].row # "missing"
              IN SelectSeq(AppOrder, Has)
  IN [i \in 1..Len(apps) |-> ConnRow(ConnUser, apps[i], AccountOf(apps[i]), st[apps[i]].row)]

BrokerFrom(st) == [a \in Apps |-> IF a \in DOMAIN st THEN st[a].broker ELSE "ACTIVE"]

InitPrep ==
  /\ StoreInit
  /\ \E p \in PrepInputs :
       /\ arg = p
       /\ \E st \in [Range(AppNamesOf(p)) -> ConnStates] :
            /\ appConnections = RowsFrom(st)
            /\ brokerStatus = BrokerFrom(st)
  /\ statusCache = [a \in Apps |-> Miss]
  /\ connListCache = NoEntry
  /\ upserts = [c \in Callers |-> IdleUpsert]
  /\ mockUserConnections = [a \in Apps |-> NoAccount]
  /\ VectorInit
  /\ SummaryInit
  /\ AnalysisInit
  /\ out = Pending(0)

\* One tool-tier turn: the preparation, then the answer. `at` keeps, for each
\* app whose tools are offered, what the registry, the broker and the cache
\* held when the preparation ran. `broker` is what the status call returns.
PrepareTurn(p, run, broker) ==
  LET prep == PrepareToolsForExecution(appConnections, DbOk(World, TRUE),
                                       broker, statusCache, p)
  IN /\ out' = Result([prep |-> prep,
                        turn |-> HandleHighConfidenceToolExecution(prep, run),
                        at |-> [a \in prep.tools |->
                                  [row |-> GetConnection(appConnections, TRUE, ConnUser, a).status,
                                   broker |-> brokerStatus[a],
                                   cached |-> statusCache[a]]]])
     /\ statusCache' = prep.cache
     /\ isHealthy' = IF prep.prioritizedApps = << >> THEN isHealthy ELSE DbOk(World, TRUE)

Prepare ==
  /\ ~out.done
  /\ PrepareTurn(arg, PrepRun, brokerStatus)
  /\ UNCHANGED <<sessActive, extVars, analysisVars, users, sessions, summary, convs, msgs, dbReachable,
                 userCache, sessCache, convCache, msgCache, nextSid, now, stepResults,
                 req, arg, appConnections, brokerStatus, upsertVars>>

SpecPrep == InitPrep /\ [][Prepare]_vars

\* --------------------------------- the join of the per-app preparations of a turn
\* the apps the router names in these turns, each with an ACTIVE connection
JoinApps == <<"GMAIL", "GOOGLEDRIVE", "NOTION">>

\* getComposioAppToolsFromPinecone for an app: tool names, none, or a throw
SearchOutcomes == {"found", "none", "throws"}

\* getComposioTool for an app: the tools, or a throw
FetchOutcomes == {"ok", "throws"}

\* the apps whose tools are fetched: a search that throws yields no tool name
\* (the catch sets relevantTools = []), without tool names nothing is fetched,
\* and a fetch that throws returns null
FetchedApps(search, fetch) ==
  {a \in Apps : search[a] = "found" /\ fetch[a] = "ok"}

\* the apps whose promise rejects: the status call is made (there is an
\* account id and nothing is cached) and throws outside any try block
RejectedApps(rows, dbOk, broker, cache, apps) ==
  {a \in Range(apps) :
     /\ GetConnectedAccountIdForUserAndApp(rows, dbOk, ConnUser, a) # NoAccount
     /\ cache[a] = Miss
     /\ broker[a] = Unreachable}

\* Promise.all: the first rejection rejects the whole preparation
JoinAll(prep, rejected) ==
  IF rejected # {}
  THEN [thrown |-> TRUE, tools |-> {}, requiredConnections |-> << >>]
  ELSE [thrown |-> FALSE, tools |-> prep.tools,
        requiredConnections |-> prep.requiredConnections]

\* Promise.allSettled and the forEach after it: the fulfilled, non-null
\* results are merged and the preparation returns
JoinAllSettled(prep, rejected) ==
  [thrown |-> FALSE, tools |-> prep.tools,
   requiredConnections |-> prep.requiredConnections]

JoinInputs ==
  {[recommendedApps |-> JoinApps,
    routing |-> [ok |-> TRUE, appNames |-> JoinApps],
    toolPriorities |-> [a \in Apps |-> NoPriority],
    toolsFor |-> FetchedApps(search, fetch),
    search |-> search, fetch |-> fetch] :
     search \in [Apps -> SearchOutcomes], fetch \in [Apps -> FetchOutcomes]}

InitJoin ==
  /\ StoreInit
  /\ arg \in {p \in JoinInputs :
                \A a \in Apps \ Range(JoinApps) : p.search[a] = "none" /\ p.fetch[a] = "ok"}
  /\ appConnections =
       [i \in 1..Len(JoinApps) |-> ConnRow(ConnUser, JoinApps[i], AccountOf(JoinApps[i]), "ACTIVE")]
  /\ brokerStatus \in {b \in [Apps -> {"ACTIVE", "EXPIRED", Unreachable}] :
                          \A a \in Apps \ Range(JoinApps) : b[a] = "ACTIVE"}
  /\ statusCache = [a \in Apps |-> Miss]
  /\ connListCache = NoEntry
  /\ upserts = [c \in Callers |-> IdleUpsert]
  /\ mockUserConnections = [a \in Apps |-> NoAccount]
  /\ VectorInit
  /\ SummaryInit
  /\ AnalysisInit
  /\ out = Pending(0)

\* prepareToolsForExecution of one turn, up to its return
PrepareJoin ==
  LET prep == PrepareToolsForExecution(appConnections, DbOk(World, TRUE),
                                       brokerStatus, statusCache, arg)
      rejected == RejectedApps(appConnections, DbOk(World, TRUE), brokerStatus,
                               statusCache, prep.prioritizedApps)
  IN /\ ~out.done
     /\ out' = Result(JoinAllSettled(prep, rejected))
     /\ statusCache' = prep.cache
     /\ isHealthy' = DbOk(World, TRUE)
     /\ UNCHANGED <<sessActive, extVars, analysisVars, users, sessions, summary, convs, msgs,
                    dbReachable, userCache, sessCache, convCache, msgCache, nextSid, now,
                    stepResults, req, arg, appConnections, brokerStatus, upsertVars>>

SpecJoin == InitJoin /\ [][PrepareJoin]_vars

\* ------------------------------ the registry, the broker and the status cache
\* the app followed while its connection changes
ConnApps == {"GMAIL"}

\* an upsert that creates whenever its lookup saw no row, whatever the index holds
UpsertRowsNoIndex(rows, hasUser, found, u, a, x, st) ==
  IF found
  THEN [ok |-> TRUE,
        rows |-> [i \in 1..Len(rows) |->
                    IF rows[i].userId = u /\ rows[i].appName = a
                    THEN ConnRow(u, a, x, st) ELSE rows[i]]]
  ELSE [ok |-> hasUser, rows |-> IF hasUser THEN Append(rows, ConnRow(u, a, x, st)) ELSE rows]

\* upsert by the unique key (userId, appName): `found` is what the lookup saw.
\* A create needs the user row (foreign key) and no row of the key (unique index).
UpsertRows(rows, hasUser, found, u, a, x, st) ==
  IF found
  THEN [ok |-> TRUE,
        rows |-> [i \in 1..Len(rows) |->
                    IF rows[i].userId = u /\ rows[i].appName = a
                    THEN ConnRow(u, a, x, st) ELSE rows[i]]]
  ELSE IF hasUser /\ RowsOf(rows, u, a) = << >>
  THEN [ok |-> TRUE, rows |-> Append(rows, ConnRow(u, a, x, st))]
  ELSE [ok |-> FALSE, rows |-> rows]

\* upsertConnection under safeExecute, lookup and write in one statement
UpsertConnection(a, st) ==
  LET found == RowsOf(appConnections, ConnUser, a) # << >>
      res == UpsertRows(appConnections, users[ConnUser] # "absent", found,
                        ConnUser, a, AccountOf(a), st)
  IN /\ appConnections' = IF DbOk(World, TRUE) THEN res.rows ELSE appConnections
     /\ isHealthy' = DbOk(World, res.ok)
     /\ connListCache' = NoEntry
     /\ UNCHANGED <<sessActive, extVars, analysisVars, users, sessions, summary, convs, msgs, dbReachable, userCache,
                    sessCache, convCache, msgCache, nextSid, now, stepResults, req, arg,
                    out, brokerStatus, statusCache, upserts>>

\* the broker's view of the connected account changes
BrokerReports(a, st) ==
  /\ brokerStatus[a] # st
  /\ brokerStatus' = [brokerStatus EXCEPT ![a] = st]
  /\ UNCHANGED <<sessActive, extVars, analysisVars, users, sessions, summary, convs, msgs, isHealthy, dbReachable, userCache,
                 sessCache, convCache, msgCache, nextSid, now, stepResults, req, arg,
                 out, appConnections, statusCache, upsertVars>>

\* the TTL of `connection_status:{connectedAccountId}` runs out
ExpireStatus(a) ==
  /\ statusCache[a] # Miss
  /\ statusCache' = [statusCache EXCEPT ![a] = Miss]
  /\ UNCHANGED <<sessActive, extVars, analysisVars, users, sessions, summary, convs, msgs, isHealthy, dbReachable, userCache,
                 sessCache, convCache, msgCache, nextSid, now, stepResults, req, arg,
                 out, appConnections, brokerStatus, upsertVars>>

ConnPrepInputs ==
  [recommendedApps : {<<"GMAIL">>},
   routing : {r \in Routings : Range(r.appNames) \subseteq ConnApps},
   toolPriorities : {[a \in Apps |-> NoPriority]},
   toolsFor : {{}, Apps}]

\* a tool-tier turn of the user; the status call answers or throws
PrepareConn(p, up) ==
  /\ PrepareTurn(p, PrepRun, IF up THEN brokerStatus ELSE [a \in Apps |-> Unreachable])
  /\ UNCHANGED <<sessActive, extVars, analysisVars, users, sessions, summary, convs, msgs, dbReachable,
                 userCache, sessCache, convCache, msgCache, nextSid, now, stepResults,
                 req, arg, appConnections, brokerStatus, upsertVars>>

InitConn ==
  /\ users = [u \in AllUsers |-> IF u = ConnUser THEN "" ELSE "absent"]
  /\ StoreEmpty
  /\ ConnInit
  /\ AnalysisInit
  /\ arg = 0
  /\ out = Pending(0)

NextConn ==
  \/ \E a \in ConnApps, st \in Statuses : UpsertConnection(a, st)
  \/ \E a \in ConnApps, st \in Statuses : BrokerReports(a, st)
  \/ \E a \in ConnApps : ExpireStatus(a)
  \/ \E p \in ConnPrepInputs, up \in BOOLEAN : PrepareConn(p, up)

SpecConn == InitConn /\ [][NextConn]_vars

\* --------------------------------------- upserts of one key by several callers
\* what an upsert writes
UpsertStatuses == {"ACTIVE", "INITIATED"}

\* the entry points: upsertConnection (under safeExecute) and connectApp
Entries == {"upsertConnection", "connectApp"}

\* The upsert looks the key up. Under safeExecute a store that is not
\* connected ends the call with null, after the cache entry is deleted.
UpsertFind(c, a, st, via) ==
  LET run == via = "connectApp" \/ DbOk(World, TRUE)
  IN /\ upserts[c].pc = "idle"
     /\ upserts' = [upserts EXCEPT ![c] =
                      [pc |-> IF run THEN "found" ELSE "unavailable", app |-> a, st |-> st,
                       via |-> via,
                       found |-> run /\ RowsOf(appConnections, ConnUser, a) # << >>]]
     /\ isHealthy' = IF via = "connectApp" THEN isHealthy ELSE DbOk(World, TRUE)
     /\ connListCache' = IF run THEN connListCache ELSE NoEntry
     /\ UNCHANGED <<sessActive, extVars, analysisVars, users, sessions, summary, convs, msgs, dbReachable, userCache,
                    sessCache, convCache, msgCache, nextSid, now, stepResults, req, arg,
                    out, appConnections, brokerStatus, statusCache>>

\* The upsert updates the row it saw or creates one. A create that meets a row
\* of the key fails on the unique index: safeExecute clears isHealthy and
\* upsertConnection returns null, connectApp rethrows.
UpsertWrite(c) ==
  LET u == upserts[c]
      res == UpsertRows(appConnections, users[ConnUser] # "absent", u.found,
                        ConnUser, u.app, AccountOf(u.app), u.st)
  IN /\ u.pc = "found"
     /\ appConnections' = res.rows
     /\ upserts' = [upserts EXCEPT ![c].pc = IF res.ok THEN "ok" ELSE "conflict"]
     /\ isHealthy' = IF u.via = "connectApp" THEN isHealthy ELSE isHealthy /\ res.ok
     /\ connListCache' = IF u.via = "connectApp" THEN connListCache ELSE NoEntry
     /\ UNCHANGED <<sessActive, extVars, analysisVars, users, sessions, summary, convs, msgs, dbReachable, userCache,
                    sessCache, convCache, msgCache, nextSid, now, stepResults, req, arg,
                    out, brokerStatus, statusCache>>

\* the caller has its answer
UpsertReturn(c) ==
  /\ upserts[c].pc \in {"ok", "conflict", "unavailable"}
  /\ upserts' = [upserts EXCEPT ![c] = IdleUpsert]
  /\ UNCHANGED <<sessActive, extVars, analysisVars, users, sessions, summary, convs, msgs, isHealthy, dbReachable, userCache,
                 sessCache, convCache, msgCache, nextSid, now, stepResults, req, arg,
                 out, appConnections, brokerStatus, statusCache, connListCache>>

\* deactivateConnection: update by the unique key, which throws when no row
\* has it; the cache entry is deleted either way
DeactivateConnection(a) ==
  LET found == RowsOf(appConnections, ConnUser, a) # << >>
  IN /\ appConnections' =
          IF DbOk(World, found)
          THEN UpsertRows(appConnections, TRUE, TRUE, ConnUser, a, AccountOf(a), "INACTIVE").rows
          ELSE appConnections
     /\ isHealthy' = DbOk(World, found)
     /\ connListCache' = NoEntry
     /\ UNCHANGED <<sessActive, extVars, analysisVars, users, sessions, summary, convs, msgs, dbReachable, userCache,
                    sessCache, convCache, msgCache, nextSid, now, stepResults, req, arg,
                    out, brokerStatus, statusCache, upserts>>

\* what getUserConnections(userId) returns: the cached map when there is one
\* (an empty map counts), else the ACTIVE rows, none when the store is not
\* connected
UserConnections(cache, rows, dbOk) ==
  LET Active(a) == GetConnection(rows, TRUE, ConnUser, a).status = "ACTIVE"
  IN IF cache.hit THEN cache.val
     ELSE IF dbOk THEN SelectSeq(AppOrder, Active) ELSE << >>

\* getUserConnections(userId): what it read from the store it caches
GetUserConnections ==
  LET map == UserConnections(connListCache, appConnections, DbOk(World, TRUE))
  IN /\ connListCache' = Entry(map)
     /\ isHealthy' = IF connListCache.hit THEN isHealthy ELSE DbOk(World, TRUE)
     /\ out' = Result(map)
     /\ UNCHANGED <<sessActive, extVars, analysisVars, users, sessions, summary, convs, msgs, dbReachable, userCache,
                    sessCache, convCache, msgCache, nextSid, now, stepResults, req, arg,
                    appConnections, brokerStatus, statusCache, upserts>>

InitUpsert ==
  /\ users \in {[u \in AllUsers |-> IF u = ConnUser THEN e ELSE "absent"] : e \in {"", "absent"}}
  /\ StoreEmpty
  /\ ConnInit
  /\ AnalysisInit
  /\ arg = 0
  /\ out = 0

NextUpsert ==
  \/ \E c \in Callers, a \in ConnApps, st \in UpsertStatuses, via \in Entries :
       UpsertFind(c, a, st, via)
  \/ \E c \in Callers : UpsertWrite(c)
  \/ \E c \in Callers : UpsertReturn(c)
  \/ \E a \in ConnApps : DeactivateConnection(a)
  \/ GetUserConnections

SpecUpsert == InitUpsert /\ [][NextUpsert]_vars

\* ------------------------------------------- the operations of the registry
\* the apps whose connections are followed
RegistryApps == {"GMAIL", "NOTION"}

\* connectApp: an upsert with status ACTIVE sent to the store directly; it
\* throws when the store does not answer or refuses, and no cache entry is touched
ConnectApp(a) ==
  LET found == RowsOf(appConnections, ConnUser, a) # << >>
      res == UpsertRows(appConnections, users[ConnUser] # "absent", found,
                        ConnUser, a, AccountOf(a), "ACTIVE")
  IN /\ appConnections' = IF dbReachable THEN res.rows ELSE appConnections
     /\ UNCHANGED <<sessActive, extVars, analysisVars, users, sessions, summary, convs, msgs, isHealthy,
                    dbReachable, userCache, sessCache, convCache, msgCache, nextSid, now,
                    stepResults, req, arg, out, brokerStatus, statusCache, upsertVars>>

\* disconnectApp: an update to INACTIVE by the unique key, sent to the store
\* directly; it throws when no row has the key, and no cache entry is touched
DisconnectApp(a) ==
  LET found == RowsOf(appConnections, ConnUser, a) # << >>
      row == GetConnection(appConnections, TRUE, ConnUser, a)
  IN /\ appConnections' =
          IF dbReachable /\ found
          THEN UpsertRows(appConnections, TRUE, TRUE, ConnUser, a, row.accountId, "INACTIVE").rows
          ELSE appConnections
     /\ UNCHANGED <<sessActive, extVars, analysisVars, users, sessions, summary, convs, msgs, isHealthy,
                    dbReachable, userCache, sessCache, convCache, msgCache, nextSid, now,
                    stepResults, req, arg, out, brokerStatus, statusCache, upsertVars>>

\* syncConnectionStatus: the row of the key, when there is one, takes the status
\* the broker reports for its account; a status call that throws ends the call
SyncConnectionStatus(a, up) ==
  LET found == RowsOf(appConnections, ConnUser, a) # << >>
      row == GetConnection(appConnections, TRUE, ConnUser, a)
  IN /\ appConnections' =
          IF dbReachable /\ found /\ up
          THEN UpsertRows(appConnections, TRUE, TRUE, ConnUser, a, row.accountId,
                          brokerStatus[a]).rows
          ELSE appConnections
     /\ UNCHANGED <<sessActive, extVars, analysisVars, users, sessions, summary, convs, msgs, isHealthy,
                    dbReachable, userCache, sessCache, convCache, msgCache, nextSid, now,
                    stepResults, req, arg, out, brokerStatus, statusCache, upsertVars>>

\* the TTL of `user_connections:{userId}:ACTIVE` runs out
ExpireConnList ==
  /\ connListCache.hit
  /\ connListCache' = NoEntry
  /\ UNCHANGED <<sessActive, extVars, analysisVars, users, sessions, summary, convs, msgs, isHealthy,
                 dbReachable, userCache, sessCache, convCache, msgCache, nextSid, now,
                 stepResults, req, arg, out, appConnections, brokerStatus, statusCache, upserts>>

NextRegistry ==
  \/ \E a \in RegistryApps, st \in Statuses : UpsertConnection(a, st)
  \/ \E a \in RegistryApps : ConnectApp(a)
  \/ \E a \in RegistryApps : DeactivateConnection(a)
  \/ \E a \in RegistryApps : DisconnectApp(a)
  \/ \E a \in RegistryApps, up \in BOOLEAN : SyncConnectionStatus(a, up)
  \/ \E a \in ConnApps, st \in Statuses : BrokerReports(a, st)
  \/ GetUserConnections
  \/ ExpireConnList

\* the user has a row, no connection is registered, no call has returned
InitRegistry ==
  /\ users = [u \in AllUsers |-> IF u = ConnUser THEN "" ELSE "absent"]
  /\ StoreEmpty
  /\ ConnInit
  /\ AnalysisInit
  /\ arg = 0
  /\ out = Pending(<< >>)

SpecRegistry == InitRegistry /\ [][NextRegistry]_vars

\* ------------------------------------------- the connection handshake endpoints
\* what the broker's initiate answers: a connection request with or without a
\* connected account id, or an error
InitiateAnswers == {"account", "no account", "throws"}

\* saveUserConnection: the account id goes to the in-memory map of the service
SaveUserConnection(mock, a, x) == [mock EXCEPT ![a] = x]

\* initiateComposioConnection: the broker's connection request is returned; its
\* connected account id, when it has one, is saved with saveUserConnection
InitiateComposioConnection(mock, a, answer) ==
  IF answer = "throws"
  THEN [ok |-> FALSE, connectedAccountId |-> NoAccount, mock |-> mock]
  ELSE IF answer = "account"
  THEN [ok |-> TRUE, connectedAccountId |-> AccountOf(a),
        mock |-> SaveUserConnection(mock, a, AccountOf(a))]
  ELSE [ok |-> TRUE, connectedAccountId |-> NoAccount, mock |-> mock]

\* POST composio/initiate {appName, userId}: 500 when the service throws
PostInitiate(a, answer) ==
  LET r == InitiateComposioConnection(mockUserConnections, a, answer)
  IN /\ mockUserConnections' = r.mock
     /\ out' = Result([op |-> "initiate", success |-> r.ok, userId |-> ConnUser,
                       appName |-> a, connectedAccountId |-> r.connectedAccountId,
                       status |-> ""])
     /\ UNCHANGED <<sessActive, analysisVars, users, sessions, summary, convs, msgs, isHealthy,
                    dbReachable, userCache, sessCache, convCache, msgCache, nextSid, now,
                    stepResults, req, arg, appConnections, brokerStatus, statusCache,
                    upsertVars, pinecone, pgVectors, ingested, summaryCache, summaryCalls>>

\* confirmComposioConnection(userId, appName, connectedAccountId): the registry
\* entry of (userId, appName) is upserted with the account id and ACTIVE
ConfirmComposioConnection(rows, hasUser, u, a, x) ==
  UpsertRows(rows, hasUser, RowsOf(rows, u, a) # << >>, u, a, x, "ACTIVE").rows

\* a callback that confirms the connection whatever the broker reports
HandleCallbackAnyStatus(rows, hasUser, body, status) ==
  IF body.userId # "" /\ body.appName # ""
  THEN ConfirmComposioConnection(rows, hasUser, body.userId, body.appName,
                                 body.connectedAccountId)
  ELSE rows

\* handleCallback: the registry after the callback, `status` being what the
\* broker reports for the connected account
HandleCallback(rows, hasUser, body, status) ==
  IF status = "ACTIVE" /\ body.userId # "" /\ body.appName # ""
  THEN ConfirmComposioConnection(rows, hasUser, body.userId, body.appName,
                                 body.connectedAccountId)
  ELSE rows

CallbackBodies ==
  [connectedAccountId : {AccountOf(a) : a \in RegistryApps},
   userId : {ConnUser, ""},
   appName : RegistryApps \cup {""}]

\* POST composio/callback {connectedAccountId, userId, appName}: 500 when the
\* status call throws. An account id is written as the app it was made for.
PostCallback(body, up) ==
  LET status == IF up THEN brokerStatus[body.connectedAccountId] ELSE Unreachable
  IN /\ appConnections' =
          HandleCallback(appConnections, users[ConnUser] # "absent", body, status)
     /\ out' = Result([op |-> "callback", success |-> up, userId |-> body.userId,
                       appName |-> body.appName,
                       connectedAccountId |-> body.connectedAccountId, status |-> status])
     /\ UNCHANGED <<sessActive, extVars, analysisVars, users, sessions, summary, convs, msgs, isHealthy,
                    dbReachable, userCache, sessCache, convCache, msgCache, nextSid, now,
                    stepResults, req, arg, brokerStatus, statusCache, upsertVars>>

\* registries in which no connection is ACTIVE yet
HandshakeRows ==
  LET st == [RegistryApps -> (Statuses \ {"ACTIVE"}) \cup {"missing"}]
      Has(f) == LET Present(a) == a \in RegistryApps /\ f[a] # "missing"
                IN SelectSeq(AppOrder, Present)
  IN {[i \in 1..Len(Has(f)) |->
         ConnRow(ConnUser, Has(f)[i], AccountOf(Has(f)[i]), f[Has(f)[i]])] : f \in st}

InitHandshake ==
  /\ users = [u \in AllUsers |-> IF u = ConnUser THEN "" ELSE "absent"]
  /\ StoreEmpty
  /\ AnalysisInit
  /\ appConnections \in HandshakeRows
  /\ brokerStatus = [a \in Apps |-> "INITIATED"]
  /\ statusCache = [a \in Apps |-> Miss]
  /\ connListCache = NoEntry
  /\ upserts = [c \in Callers |-> IdleUpsert]
  /\ mockUserConnections = [a \in Apps |-> NoAccount]
  /\ VectorInit
  /\ SummaryInit
  /\ arg = 0
  /\ out = Pending([op |-> "", success |-> FALSE, userId |-> "", appName |-> "",
                    connectedAccountId |-> NoAccount, status |-> ""])

\* what the broker comes to report for an account whose connection was initiated
HandshakeReports == {"ACTIVE", "FAILED", "EXPIRED"}

NextHandshake ==
  \/ \E a \in ConnApps, answer \in InitiateAnswers : PostInitiate(a, answer)
  \/ \E body \in CallbackBodies, up \in BOOLEAN : PostCallback(body, up)
  \/ \E a \in RegistryApps, st \in HandshakeReports : BrokerReports(a, st)

SpecHandshake == InitHandshake /\ [][NextHandshake]_vars

\* ------------------------------------- performComprehensiveAnalysis and its cache
InitAnalysis == StoreInit /\ ConnInit /\ AnalysisInit /\ arg = 0 /\ out = 0

NextAnalysis ==
  \/ \E c \in Callers, i \in AnalysisInputs : AnalysisLookup(c, i)
  \/ \E c \in Callers, a \in ModelAnalyses : AnalysisModel(c, TRUE, a)
  \/ \E c \in Callers : AnalysisModel(c, FALSE, NoAnalysis)
  \/ \E c \in Callers : AnalysisReturn(c)
  \/ Tick

SpecAnalysis == InitAnalysis /\ [][NextAnalysis]_vars

\* ------------------------- updateSessionSummary and getSessionSummary, interleaved
\* Summaries are numbered in the order they are written to the row of the
\* session ClientSid: summary[ClientSid] = k is the k-th summary, 0 is null.
\* what these calls leave alone
summaryFrame ==
  <<sessActive, users, sessions, convs, msgs, dbReachable, userCache, sessCache, convCache,
    msgCache, nextSid, now, stepResults, req, arg, out, connVars, analysisVars,
    mockUserConnections, pinecone, pgVectors, ingested>>

\* getSessionSummary, first await: cache.get; a cached summary is returned
GetSummaryCache(c) ==
  /\ summaryCalls[c].pc = "idle"
  /\ summaryCalls' = [summaryCalls EXCEPT ![c] =
       IF summaryCache # 0
       THEN [pc |-> "idle", val |-> 0, ret |-> summaryCache]
       ELSE [pc |-> "getDb", val |-> 0, ret |-> 0]]
  /\ UNCHANGED <<summaryFrame, summary, isHealthy, summaryCache>>

\* getSessionSummary, second await: session.findUnique through safeExecute;
\* without a summary null is returned and nothing is cached
GetSummaryDb(c) ==
  LET ok == DbOk(World, TRUE)
      found == IF ok /\ sessions[ClientSid] # NoUser THEN summary[ClientSid] ELSE 0
  IN /\ summaryCalls[c].pc = "getDb"
     /\ summaryCalls' = [summaryCalls EXCEPT ![c] =
          IF found # 0
          THEN [pc |-> "getSet", val |-> found, ret |-> 0]
          ELSE [pc |-> "idle", val |-> 0, ret |-> 0]]
     /\ isHealthy' = ok
     /\ UNCHANGED <<summaryFrame, summary, summaryCache>>

\* getSessionSummary, third await: cache.set of what was read, then return
GetSummarySet(c) ==
  /\ summaryCalls[c].pc = "getSet"
  /\ summaryCache' = summaryCalls[c].val
  /\ summaryCalls' = [summaryCalls EXCEPT ![c] =
       [pc |-> "idle", val |-> 0, ret |-> summaryCalls[c].val]]
  /\ UNCHANGED <<summaryFrame, summary, isHealthy>>

\* updateSessionSummary, first await: session.update through safeExecute;
\* without the write the call returns false
UpdateSummaryDb(c) ==
  LET exists == sessions[ClientSid] # NoUser
      ok == DbOk(World, exists)
  IN /\ summaryCalls[c].pc = "idle"
     /\ summary[ClientSid] < MaxWrites
     /\ summary' = IF ok THEN [summary EXCEPT ![ClientSid] = @ + 1] ELSE summary
     /\ summaryCalls' = [summaryCalls EXCEPT ![c] =
          [pc |-> IF ok THEN "updInvalidate" ELSE "idle", val |-> 0, ret |-> 0]]
     /\ isHealthy' = ok
     /\ UNCHANGED <<summaryFrame, summaryCache>>

\* updateSessionSummary, second await: invalidateSessionCaches deletes
\* session:<id>, session_summary:<id> and session_stats:<id>
UpdateSummaryInvalidate(c) ==
  /\ summaryCalls[c].pc = "updInvalidate"
  /\ summaryCache' = 0
  /\ summaryCalls' = [summaryCalls EXCEPT ![c] = IdleSummaryCall]
  /\ UNCHANGED <<sessActive, users, sessions, convs, msgs, dbReachable, userCache, convCache,
                 msgCache, nextSid, now, stepResults, req, arg, out, connVars, analysisVars,
                 mockUserConnections, pinecone, pgVectors, ingested, summary, isHealthy>>
  /\ sessCache' = [sessCache EXCEPT ![ClientSid] = Miss]

\* findOrCreateSession('u1', ClientSid): the turn that opens the session
OpenSession ==
  /\ sessions[ClientSid] = NoUser
  /\ SetWorld(FindOrCreateSession(World, "u1", ClientSid).w)
  /\ UNCHANGED <<extVars, analysisVars, connVars, now, stepResults, req, arg, out>>

InitSummary == Init

NextSummary ==
  \/ OpenSession
  \/ \E c \in Callers :
    \/ GetSummaryCache(c)
    \/ GetSummaryDb(c)
    \/ GetSummarySet(c)
    \/ UpdateSummaryDb(c)
    \/ UpdateSummaryInvalidate(c)

SpecSummary == InitSummary /\ [][NextSummary]_vars

\* ------------------------------------------------- the store client (PrismaService)
\* private readonly maxRetries
MaxRetries == 3

\* Math.pow(2, connectionAttempts) * 1000
BackoffFactor == 2
BackoffUnitMs == 1000

WaitTime(connectionAttempts) == (BackoffFactor ^ connectionAttempts) * BackoffUnitMs

\* the client once constructed: connectWithRetry has not run
ClientStart ==
  [pc |-> "connect", connectionAttempts |-> 0, waits |-> << >>,
   caught |-> FALSE, returned |-> << >>]

\* One turn of the loop of connectWithRetry up to its wait: $connect, then on
\* success healthCheck and return; on failure the attempt is counted and the
\* loop ends at maxRetries. $connect and the query of healthCheck succeed
\* when the store is reachable.
ConnectAttempt(c, healthy, reach) ==
  IF reach
  THEN [client |-> [c EXCEPT !.pc = "ready"], healthy |-> TRUE]
  ELSE [client |-> [c EXCEPT !.connectionAttempts = @ + 1,
                             !.pc = IF c.connectionAttempts + 1 >= MaxRetries
                                    THEN "ready" ELSE "wait"],
        healthy |-> FALSE]

\* safeExecute(operation): isConnected() answers false at once when isHealthy
\* is false; otherwise its query and then the operation run, and a failure of
\* either clears isHealthy. `ok`: the operation itself does not throw.
SafeExecute(w, ok) ==
  [value |-> IF DbOk(w, ok) THEN "result" ELSE "null",
   caught |-> w.healthy /\ w.reach /\ ~ok,
   healthy |-> DbOk(w, ok)]

Connect ==
  /\ ~out.done
  /\ out.val.pc = "connect"
  /\ LET r == ConnectAttempt(out.val, isHealthy, dbReachable)
     IN /\ out' = [done |-> r.client.pc = "ready", val |-> r.client]
        /\ isHealthy' = r.healthy
  /\ UNCHANGED <<sessActive, extVars, users, sessions, summary, convs, msgs, dbReachable,
                 userCache, sessCache, convCache, msgCache, nextSid, now, stepResults,
                 req, arg, connVars, analysisVars>>

\* await new Promise((resolve) => setTimeout(resolve, waitTime))
Backoff ==
  /\ ~out.done
  /\ out.val.pc = "wait"
  /\ out' = [out EXCEPT !.val.waits = Append(@, WaitTime(out.val.connectionAttempts)),
                         !.val.pc = "connect"]
  /\ UNCHANGED <<sessActive, extVars, users, sessions, summary, convs, msgs, isHealthy,
                 dbReachable, userCache, sessCache, convCache, msgCache, nextSid, now,
                 stepResults, req, arg, connVars, analysisVars>>

\* the store becomes reachable or unreachable
Reachability(b) ==
  /\ dbReachable # b
  /\ dbReachable' = b
  /\ UNCHANGED <<sessActive, extVars, users, sessions, summary, convs, msgs, isHealthy,
                 userCache, sessCache, convCache, msgCache, nextSid, now, stepResults,
                 req, arg, out, connVars, analysisVars>>

\* a caller runs safeExecute once the module is initialised; `returned` keeps
\* what the calls returned
CallSafeExecute(ok) ==
  /\ out.done
  /\ Len(out.val.returned) < MaxOps
  /\ LET r == SafeExecute(World, ok)
     IN /\ out' = [out EXCEPT !.val.returned = Append(@, r.value),
                              !.val.caught = @ \/ r.caught]
        /\ isHealthy' = r.healthy
  /\ UNCHANGED <<sessActive, extVars, users, sessions, summary, convs, msgs, dbReachable,
                 userCache, sessCache, convCache, msgCache, nextSid, now, stepResults,
                 req, arg, connVars, analysisVars>>

InitClient ==
  /\ users \in [AllUsers -> {"absent"}]
  /\ StoreTables
  /\ isHealthy = FALSE
  /\ dbReachable \in BOOLEAN
  /\ ConnInit /\ AnalysisInit
  /\ arg = 0
  /\ out = Pending(ClientStart)

NextClient ==
  \/ Connect
  \/ Backoff
  \/ \E b \in BOOLEAN : Reachability(b)
  \/ \E ok \in BOOLEAN : CallSafeExecute(ok)

SpecClient == InitClient /\ [][NextClient]_vars

\* ------------------------------------------------ the analysis cache key on its own
\* the characters of queries and messages: a letter and the two separators
HashChars == {"a", ":", "|"}

\* texts of at most one character
HashTexts == {<< >>} \cup {<<ch>> : ch \in HashChars}

\* histories of up to two messages, and two longer ones that end alike
HashHistories ==
  {<< >>}
  \cup {<<Content(h, "")>> : h \in HashTexts}
  \cup {<<Content(h, ""), Content(g, "")>> : h \in HashTexts, g \in HashTexts}
  \cup {<<Content(h, ""), Content(<<"a">>, ""), Content(<<"a">>, ""), Content(<<"a">>, "")>> :
          h \in {<<"a">>, <<"|">>}}

\* userQuery is not blank
HashInputs == [query : HashTexts \ {<< >>}, history : HashHistories]

InitHash ==
  /\ StoreInit /\ ConnInit /\ AnalysisInit
  /\ arg \in [first : HashInputs, second : HashInputs]
  /\ out = Pending(0)

\* the keys of two calls of performComprehensiveAnalysis
HashBoth ==
  /\ ~out.done
  /\ out' = Result([first |-> GenerateQueryHash(arg.first.query, arg.first.history),
                     second |-> GenerateQueryHash(arg.second.query, arg.second.history)])
  /\ UNCHANGED <<sessActive, extVars, users, sessions, summary, convs, msgs, isHealthy,
                 dbReachable, userCache, sessCache, convCache, msgCache, nextSid, now,
                 stepResults, req, arg, connVars, analysisVars>>

SpecHash == InitHash /\ [][HashBoth]_vars

\* --------------------------------------- the analysis cache and the users' turns
\* the analysis generateObject returns for a turn: its conversationSummary is
\* drawn from the prompt, which holds the turn's history and currentSummary;
\* `subject` is the user whose data it summarises
AnalysisFor(u) ==
  [conf |-> MidConf, tool |-> FALSE, steps |-> 1, state |-> "information_gathering",
   recommendedApps |-> << >>, subject |-> u]

\* performComprehensiveAnalysis(userQuery, conversationHistory, currentSummary)
\* in the turn of user u: the key is made of the query and the history alone
PerformComprehensiveAnalysis(cache, u, i, ok, t) ==
  LET k == GenerateQueryHash(i.query, i.history)
      cached == CachedAnalysis(cache, k, t)
  IN IF cached.hit
     THEN [cache |-> cache, analysis |-> cached.val.a]
     ELSE [cache |-> StoreAnalysis(cache, k, ok, AnalysisFor(u), t),
           analysis |-> IF ok THEN AnalysisFor(u)
                        ELSE [conf |-> FallbackConf, tool |-> FALSE, steps |-> 1,
                              state |-> "information_gathering",
                              recommendedApps |-> << >>, subject |-> NoUser]]

InitShared ==
  /\ StoreInit /\ ConnInit /\ AnalysisInit
  /\ arg = 0
  /\ out = Pending(0)

\* stage 2 of the turn of user u
AnalyzeTurn(u, i, ok) ==
  LET r == PerformComprehensiveAnalysis(analysisCache, u, i, ok, now)
  IN /\ analysisCache' = r.cache
     /\ out' = Result([user |-> u, input |-> i, analysis |-> r.analysis])
     /\ UNCHANGED <<sessActive, extVars, users, sessions, summary, convs, msgs, isHealthy,
                    dbReachable, userCache, sessCache, convCache, msgCache, nextSid, now,
                    stepResults, req, arg, connVars, analyses, lastOk>>

NextShared ==
  \/ \E u \in Users, i \in AnalysisInputs, ok \in BOOLEAN : AnalyzeTurn(u, i, ok)
  \/ Tick

SpecShared == InitShared /\ [][NextShared]_vars

\* ------------------------------------------- tool calls of one generateText run
\* A tool argument is a string: `prefix` holds its first six characters when
\* they are "$step_" (else ""), `rest` what follows (a tool call id or a text).
StepRef(id) == [prefix |-> "$step_", rest |-> id]
Literal(v) == [prefix |-> "", rest |-> v]

\* tool call ids of a turn, in the order the calls are made
CallIds == 1..MaxCalls

ToolArgs == {StepRef(id) : id \in CallIds} \cup {Literal(v) : v \in {"x", "y"}}

\* what a tool returns
StepValues == {"r1", "r2"}

NoResult == "undefined"

\* addStepResult
AddStepResult(ctx, id, result) == [ctx EXCEPT ![id] = result]

\* enrichParametersWithContext on one parameter: a "$step_<id>" string is
\* replaced by the stored result of <id> when there is one
EnrichParametersWithContext(ctx, value) ==
  IF value.prefix = "$step_" /\ value.rest \in DOMAIN ctx /\ ctx[value.rest] # NoResult
  THEN Literal(ctx[value.rest])
  ELSE value

\* the context after the results of the first n calls are recorded
RECURSIVE ContextAfter(_, _, _)
ContextAfter(ctx, calls, n) ==
  IF n = 0 THEN ctx
  ELSE AddStepResult(ContextAfter(ctx, calls, n - 1), calls[n].id, calls[n].result)

\* generateText runs each tool with the arguments the chat model emitted;
\* executeWithTools records the results once generateText has returned
RunToolCalls(ctx, calls) ==
  [dispatched |-> [i \in 1..Len(calls) |-> calls[i].args],
   context |-> ContextAfter(ctx, calls, Len(calls))]

\* the tool calls of a turn: call i has id i
ToolScripts ==
  UNION {{s \in [1..n -> [id : CallIds, args : ToolArgs, result : StepValues]] :
            \A i \in 1..n : s[i].id = i} : n \in 0..MaxCalls}

InitSteps ==
  /\ StoreInit /\ ConnInit /\ AnalysisInit
  /\ arg \in ToolScripts
  /\ out = Pending(0)

RunTools ==
  /\ ~out.done
  /\ out' = Result(RunToolCalls([id \in CallIds |-> NoResult], arg))
  /\ UNCHANGED <<sessActive, extVars, users, sessions, summary, convs, msgs, isHealthy, dbReachable, userCache,
                 sessCache, convCache, msgCache, nextSid, now, stepResults, req, arg,
                 connVars, analysisVars>>

SpecSteps == InitSteps /\ [][RunTools]_vars

\* ------------------------------------------ enrichParametersWithContext on an object
\* step ids: "1" and "2" are ids the context may hold, "3" is never recorded
StoredIds == {"1", "2"}
StepIds == StoredIds \cup {"3"}

\* the values of a parameter: a string (its first six characters when they
\* are "$step_", and what follows), or an object that holds such a string
ParamValues ==
  [type : {"string", "object"}, prefix : {"$step_"}, rest : {"1", "3"}]
  \cup {[type |-> "string", prefix |-> "", rest |-> "x"]}

ParamKeys == {"to", "body"}

\* a stored result, as the value of a parameter
StoredValue(result) == [type |-> "result", prefix |-> "", rest |-> result]

\* the loop body: typeof value === "string" && value.startsWith("$step_"),
\* then getStepResult(value.substring(6)) !== undefined
EnrichedValue(ctx, value) ==
  LET stepResult == IF value.rest \in DOMAIN ctx THEN ctx[value.rest] ELSE NoResult
  IN IF value.type = "string" /\ value.prefix = "$step_" /\ stepResult # NoResult
     THEN StoredValue(stepResult)
     ELSE value

\* an enrichment that writes into the object it is given
EnrichInPlace(ctx, parameters) ==
  LET enriched == [k \in DOMAIN parameters |-> EnrichedValue(ctx, parameters[k])]
  IN [parameters |-> enriched, context |-> ctx, enriched |-> enriched]

\* enrichParametersWithContext on an object: the copy {...parameters} is
\* written; `parameters` and `context` are the caller's object and the stored
\* results once it has returned
EnrichParameters(ctx, parameters) ==
  [parameters |-> parameters,
   context |-> ctx,
   enriched |-> [k \in DOMAIN parameters |-> EnrichedValue(ctx, parameters[k])]]

InitEnrich ==
  /\ StoreInit /\ ConnInit /\ AnalysisInit
  /\ arg \in [parameters : [ParamKeys -> ParamValues],
               context : [StoredIds -> {"r1", NoResult}]]
  /\ out = Pending(0)

Enrich ==
  /\ ~out.done
  /\ out' = Result(EnrichParameters(arg.context, arg.parameters))
  /\ UNCHANGED <<sessActive, extVars, users, sessions, summary, convs, msgs, isHealthy,
                 dbReachable, userCache, sessCache, convCache, msgCache, nextSid, now,
                 stepResults, req, arg, connVars, analysisVars>>

SpecEnrich == InitEnrich /\ [][Enrich]_vars

\* ------------------------------------------------- the vector stores of tools
\* PineconeService.ingestComposioAppToolsToPinecone: the records, with id and
\* metadata.toolName the tool name, are upserted into the namespace appKey
PineconeIngest(index, appKey, tools) == [index EXCEPT ![appKey] = @ \cup tools]

\* the records of the namespace appKey
PineconeMatches(index, appKey) == index[appKey]

\* a search of PGVector that leaves the filter out
PgVectorMatchesUnfiltered(index, appKey) == {t \in ToolNames : index[t] # "none"}

\* PgVectorService.ingestComposioAppToolsToPinecone: the vectors are upserted
\* into the one index by id, with metadata {toolName, appKey}
PgVectorIngest(index, appKey, tools) ==
  [t \in ToolNames |-> IF t \in tools THEN appKey ELSE index[t]]

\* the vectors the filter {appKey} lets through
PgVectorMatches(index, appKey) == {t \in ToolNames : index[t] = appKey}

\* the answers a query may give: the topK nearest of the matches, whichever
\* they are
TopKOf(matches, topK) ==
  {R \in SUBSET matches : Cardinality(R) = Min(topK, Cardinality(matches))}

Ingest(store, appKey, tools) ==
  /\ pinecone' = IF store = "pinecone" THEN PineconeIngest(pinecone, appKey, tools)
                  ELSE pinecone
  /\ pgVectors' = IF store = "pgvector" THEN PgVectorIngest(pgVectors, appKey, tools)
                   ELSE pgVectors
  /\ ingested' = [ingested EXCEPT ![store] = @ \cup {<<appKey, t>> : t \in tools}]
  /\ UNCHANGED <<sessActive, users, sessions, summary, convs, msgs, isHealthy, dbReachable,
                 userCache, sessCache, convCache, msgCache, nextSid, now, stepResults,
                 req, arg, out, connVars, analysisVars, mockUserConnections,
                 summaryCache, summaryCalls>>

\* getComposioAppToolsFromPinecone of either service: the tool names of the
\* matches the query returns
Search(store, appKey, topK) ==
  LET matches == IF store = "pinecone" THEN PineconeMatches(pinecone, appKey)
                 ELSE PgVectorMatches(pgVectors, appKey)
  IN /\ \E R \in TopKOf(matches, topK) :
          out' = Result([store |-> store, appKey |-> appKey, toolNames |-> R])
     /\ UNCHANGED <<sessActive, extVars, users, sessions, summary, convs, msgs, isHealthy,
                    dbReachable, userCache, sessCache, convCache, msgCache, nextSid, now,
                    stepResults, req, arg, connVars, analysisVars>>

InitVectors ==
  /\ StoreInit /\ ConnInit /\ AnalysisInit
  /\ arg = 0
  /\ out = Pending(0)

NextVectors ==
  \/ \E store \in VectorStores, appKey \in VectorApps, tools \in SUBSET ToolNames :
       Ingest(store, appKey, tools)
  \/ \E store \in VectorStores, appKey \in VectorApps, topK \in {1, DefaultTopK} :
       Search(store, appKey, topK)

SpecVectors == InitVectors /\ [][NextVectors]_vars

\* ------------------------------------------- the execution plan of an analysis
\* stepNumber of the steps of a plan: step i of the array has number i
PlanSteps == 1..MaxPlan

\* z.enum(['critical', 'high', 'medium', 'low'])
Priorities == {"critical", "high", "medium", "low"}

\* what the analysis model may emit as executionSteps: the dependencies are
\* any step numbers, the priority a string
EmittedPlans ==
  UNION {{p \in [1..n -> [stepNumber : PlanSteps, dependencies : SUBSET PlanSteps,
                          priority : {"medium", "urgent"}]] :
            \A i \in 1..n : p[i].stepNumber = i} : n \in 0..MaxPlan}

\* comprehensiveAnalysisSchema on executionSteps: stepNumber a number,
\* dependencies an array of numbers, priority one of the enum
SchemaAccepts(plan) ==
  \A i \in 1..Len(plan) :
    /\ plan[i].stepNumber \in Int
    /\ plan[i].dependencies \subseteq Int
    /\ plan[i].priority \in Priorities

\* executionSteps of getFallbackAnalysis
FallbackSteps == <<[stepNumber |-> 1, dependencies |-> {}, priority |-> "medium"]>>

\* generateObject throws on an object the schema refuses, and the catch
\* answers with the fallback analysis; the object is returned otherwise
AnalysisOfPlan(plan) ==
  IF SchemaAccepts(plan)
  THEN [fallback |-> FALSE, executionSteps |-> plan]
  ELSE [fallback |-> TRUE, executionSteps |-> FallbackSteps]

InitPlan ==
  /\ StoreInit /\ ConnInit /\ AnalysisInit
  /\ arg \in EmittedPlans
  /\ out = Pending(0)

\* performComprehensiveAnalysis on a cache miss, the model answering
AnalyzePlan ==
  /\ ~out.done
  /\ out' = Result(AnalysisOfPlan(arg))
  /\ UNCHANGED <<sessActive, extVars, users, sessions, summary, convs, msgs, isHealthy,
                 dbReachable, userCache, sessCache, convCache, msgCache, nextSid, now,
                 stepResults, req, arg, connVars, analysisVars>>

SpecPlan == InitPlan /\ [][AnalyzePlan]_vars

\* --------------------------------------------------- ChatController.processChat
\* A body field is absent or a string, here a sequence of characters.
Absent == [kind |-> "undefined", chars |-> << >>]
Str(chars) == [kind |-> "string", chars |-> chars]

FieldValues == {Absent} \cup {Str(c) : c \in SeqsUpTo({" ", "a"}, MaxChars)}

\* String.prototype.trim
RECURSIVE TrimStart(_)
TrimStart(c) == IF c # << >> /\ Head(c) = " " THEN TrimStart(Tail(c)) ELSE c

Trim(c) == Rev(TrimStart(Rev(TrimStart(c))))

\* !v?.trim()
BlankOrAbsent(v) == v.kind = "undefined" \/ Trim(v.chars) = << >>

\* ChatController.processChat: the log line reads userQuery.substring before
\* the fields are checked, which throws on an absent userQuery; whatever is
\* thrown that is not an HttpException is answered with 500. `coreOk`: the
\* core processChat returns.
ControllerProcessChat(body, coreOk) ==
  IF body.userQuery.kind = "undefined"
  THEN [status |-> 500, invoked |-> FALSE]
  ELSE IF BlankOrAbsent(body.userQuery) \/ BlankOrAbsent(body.userId)
  THEN [status |-> 400, invoked |-> FALSE]
  ELSE IF coreOk
  THEN [status |-> 200, invoked |-> TRUE]
  ELSE [status |-> 500, invoked |-> TRUE]

InitHttp ==
  /\ StoreInit /\ ConnInit /\ AnalysisInit
  /\ arg \in [userQuery : FieldValues, userId : FieldValues, coreOk : BOOLEAN]
  /\ out = Pending(0)

Post ==
  /\ ~out.done
  /\ out' = Result(ControllerProcessChat(arg, arg.coreOk))
  /\ UNCHANGED <<sessActive, extVars, users, sessions, summary, convs, msgs, isHealthy, dbReachable, userCache,
                 sessCache, convCache, msgCache, nextSid, now, stepResults, req, arg,
                 connVars, analysisVars>>

SpecHttp == InitHttp /\ [][Post]_vars

\* ================================================================== claims

\* stage 1 has run and processChat has not returned
Running(r) == req[r].pc \in {"history", "analyze", "dispatch", "tools", "persist",
                             "saveUser", "saveAssistant", "summary"}

\* messages the turn of request r appended, by role
Appended(r, role) == {i \in 1..Len(msgs) : msgs[i].req = r /\ msgs[i].role = role}

\* C1: initializeContext called with the id of a session owned by another user
\* never returns that session id.
C1_ForeignSessionNotReturned ==
  \A r \in Reqs :
    (/\ req[r].ctx # 0
     /\ req[r].sid # NoSid
     /\ sessions[req[r].sid] \notin {NoUser, req[r].user})
    => req[r].ctx # req[r].sid

\* C2: with the store available, context initializations of one session return
\* the same conversation and a session never has more than one conversation.
C2_OneConversationPerSession ==
  isHealthy =>
    /\ \A s \in SessionIds : Len(ConvsOf(World, s)) <= 1
    /\ \A r, q \in Reqs :
         (req[r].conv # 0 /\ req[q].conv # 0 /\ req[r].pctx = req[q].pctx)
         => req[r].conv = req[q].conv

\* C3: once a message has been saved to a session, no history cached for that
\* session under any limit lacks it: a read after the write is never served a
\* list cached before the write.
C3_NoStaleHistory ==
  \A r \in Reqs, l \in MsgLimits :
    LET s == req[r].pctx
        Fresh(m) == (/\ m # 0
                     /\ msgCache[<<s, l>>].hit
                     /\ msgs[m].conv = ConvsOf(World, s)[1])
                    => m \in Range(msgCache[<<s, l>>].val)
    IN s # 0 => Fresh(req[r].userMsg) /\ Fresh(req[r].asstMsg)

\* C4: a turn that processChat completes appended exactly one user message and
\* exactly one assistant message to one conversation, the user message first.
C4_OneUserOneAssistant ==
  \A r \in Reqs :
    req[r].pc = "done" =>
      /\ Cardinality(Appended(r, "user")) = 1
      /\ Cardinality(Appended(r, "assistant")) = 1
      /\ \A i \in Appended(r, "user"), j \in Appended(r, "assistant") :
           i < j /\ msgs[i].ts <= msgs[j].ts /\ msgs[i].conv = msgs[j].conv

\* C5: a failed write of the persistence stage (conversation, user message,
\* assistant message, session summary) never makes processChat fail: the
\* request ends with its response returned.
C5_WriteFailureKeepsResponse ==
  \A r \in Reqs : req[r].wfail # "none" => req[r].pc = "done"

C5_Witness ==
  \E r \in Reqs : req[r].wfail = "assistant" /\ req[r].pc = "done" /\ req[r].userMsg # 0

\* C6: no exception leaves processChat for a validated request: a failing
\* chat-model call still ends in a response and a committed turn.
C6_NoExceptionLeaves ==
  \A r \in Reqs : req[r].pc # "failed"

\* C7: two requests of the same sessionId are never both between stage 1 and
\* the end of stage 5.
C7_SessionTurnsSerial ==
  \A r, q \in Reqs :
    (r # q /\ Running(r) /\ Running(q) /\ req[r].sid # NoSid)
    => req[r].sid # req[q].sid

\* C8: whatever getStepResult returns while a request is in the tool tier was
\* recorded by that request.
C8_StepResultsOwned ==
  \A r \in Reqs, id \in Reqs :
    req[r].pc = "tools" => GetStepResult(id) \in {0, r}

\* C9: the tier is the tool tier iff confidence >= 0.8 and tools are required,
\* the clarification tier iff 0.4 <= confidence < 0.8 or confidence >= 0.8
\* without tools, the conversational tier iff confidence < 0.4.
C9_TierByConfidence ==
  out.done =>
    /\ out.val \in {"tool", "clarify", "chat"}
    /\ out.val = "tool" <=> (arg.conf >= 80 /\ arg.tool)
    /\ out.val = "clarify" <=> \/ (40 <= arg.conf /\ arg.conf < 80)
                               \/ (arg.conf >= 80 /\ ~arg.tool)
    /\ out.val = "chat" <=> arg.conf < 40

C9_Witness ==
  out.done /\ arg.conf = 80 /\ arg.tool /\ out.val = "tool"

\* C10: a tool call is listed as failed iff its correlated result is an object
\* with an error field or with success=false; a call without a correlated
\* result is not listed.
C10_FailureClassification ==
  out.done =>
    \A i \in 1..Len(arg.calls) :
      LET e == out.val.executedTools[i]
          listed == e.name \in Range(out.val.failedToolNames)
      IN /\ listed <=> (/\ e.result.kind = "object"
                         /\ (e.result.error # "absent" \/ e.result.success = "false"))
         /\ (\A k \in 1..Len(arg.results) : arg.results[k].id # arg.calls[i])
              => ~listed

C10_Witness ==
  /\ out.done
  /\ Len(arg.calls) = MaxCalls
  /\ out.val.failedToolNames = <<1>>
  /\ out.val.executedTools[1].result.success = "false"
  /\ out.val.executedTools[1].result.error = "absent"
  /\ out.val.executedTools[MaxCalls].result = [kind |-> "object", error |-> "absent",
                                               success |-> "absent"]

\* C11: in a tool turn with a failed call the response names every failed tool
\* and carries, for each failure with an error field, that reason, and
\* executedTools lists every call in call order; without a failed call the
\* response is the model's text, or the default sentence when that is empty.
C11_ResponseReportsFailures ==
  out.done =>
    LET o == out.val
        calls == arg.calls
    IN /\ Len(o.executedTools) = Len(calls)
       /\ \A i \in 1..Len(calls) :
            o.executedTools[i].name = calls[i] /\ o.executedTools[i].stepNumber = i
       /\ o.hadToolFailure =>
            /\ o.response.kind = "issues"
            /\ \A i \in 1..Len(calls) :
                 IsFailure(o.executedTools[i].result) =>
                   /\ calls[i] \in Range(o.response.names)
                   /\ o.executedTools[i].result.error # "absent" =>
                        \E k \in 1..Len(o.response.details) :
                          /\ o.response.details[k].name = calls[i]
                          /\ o.response.details[k].reason = "reason"
       /\ ~o.hadToolFailure =>
            /\ o.response.kind = "text"
            /\ o.response.text = IF arg.text = "" THEN DefaultSuccess ELSE arg.text

\* the registry row of an app of the user
RowOf(a) == GetConnection(appConnections, TRUE, ConnUser, a)

\* The user has no usable connection for app a: no registry row, a row that
\* is INACTIVE, FAILED or EXPIRED, or an ACTIVE row whose connected account the
\* broker reports as INACTIVE, FAILED or EXPIRED.
NoUsableConnection(a) ==
  \/ RowOf(a).status \in {"missing", "INACTIVE", "FAILED", "EXPIRED"}
  \/ /\ RowOf(a).status = "ACTIVE"
     /\ brokerStatus[a] \in {"INACTIVE", "FAILED", "EXPIRED"}

C14_InitiatedIsUsable ==
  out.done =>
    \A a \in Range(out.val.prep.prioritizedApps) :
      RowOf(a).status = "INITIATED" => a \notin Range(out.val.turn.requiredConnections)

\* C15: requiredConnections holds exactly the apps that are in
\* analysis.recommendedApps and among the top three by priority and lack an
\* ACTIVE or INITIATED connection.
C15_RequiredConnectionsExact ==
  out.done =>
    Range(out.val.turn.requiredConnections)
      = {a \in Range(arg.recommendedApps) \cap Range(out.val.prep.prioritizedApps) :
           RowOf(a).status \notin {"ACTIVE", "INITIATED"}}

\* the connection status of an app whose tools were offered, when the
\* preparation ran: the status of the registry row unless that is ACTIVE, and
\* then what the broker held for the connected account
StatusAtPreparation(a) ==
  IF out.val.at[a].row # "ACTIVE" THEN out.val.at[a].row ELSE out.val.at[a].broker

ActiveRow(a) == ConnRow(ConnUser, a, AccountOf(a), "ACTIVE")

KeyOf(c) == GenerateQueryHash(analyses[c].input.query, analyses[c].input.history)

\* C16: when the model call or its validation fails, analyze returns the
\* fallback analysis (confidenceScore 0.1, requiresToolExecution false, one
\* execution step, state information_gathering, no recommended apps) and the
\* analysis cache is left as it was; an analyze call is served from the cache
\* only when a model call with its key succeeded less than the TTL ago.
C16_FallbackNotCached ==
  [][\A c \in Callers :
       /\ (analyses[c].pc = "model" /\ analyses'[c].pc = "done" /\ ~analyses'[c].ok)
          => /\ analyses'[c].result.conf = FallbackConf
             /\ analyses'[c].result.tool = FALSE
             /\ analyses'[c].result.steps = 1
             /\ analyses'[c].result.state = "information_gathering"
             /\ analyses'[c].result.recommendedApps = << >>
             /\ analysisCache' = analysisCache
       /\ (analyses[c].pc = "idle" /\ analyses'[c].pc = "done")
          => \E i \in AnalysisInputs :
               /\ GenerateQueryHash(i.query, i.history)
                    = GenerateQueryHash(analyses'[c].input.query, analyses'[c].input.history)
               /\ lastOk[i].hit
               /\ now < lastOk[i].val.at + CacheTtl]_vars

\* a model call failed and its key is not cached
C16_Witness ==
  \E c \in Callers :
    /\ analyses[c].pc = "done" /\ analyses[c].invoked /\ ~analyses[c].ok
    /\ analyses[c].result = GetFallbackAnalysis
    /\ ~CachedAnalysis(analysisCache, KeyOf(c), now).hit

C18_StepReferencesReplaced ==
  out.done =>
    \A i \in 1..Len(arg) :
      (arg[i].args.prefix = "$step_" /\ arg[i].args.rest < i)
      => /\ out.val.dispatched[i] = Literal(arg[arg[i].args.rest].result)
         /\ out.val.dispatched[i]
              = EnrichParametersWithContext(
                  ContextAfter([id \in CallIds |-> NoResult], arg, i - 1), arg[i].args)

\* C19: a request whose userQuery or userId is absent, empty or whitespace
\* only is answered with 400 and the core processChat is not invoked.
C19_BlankFieldsRejected ==
  (out.done /\ (BlankOrAbsent(arg.userQuery) \/ BlankOrAbsent(arg.userId)))
  => out.val.status = 400 /\ ~out.val.invoked

\* the status of the registry row of (ConnUser, a) in `rows`, "missing" without one
StatusIn(rows, a) == GetConnection(rows, TRUE, ConnUser, a).status

\* the transitions of the connection state machine
Transitions ==
  {<<"INITIATED", "ACTIVE">>, <<"INITIATED", "FAILED">>, <<"ACTIVE", "INACTIVE">>,
   <<"ACTIVE", "EXPIRED">>, <<"INACTIVE", "INITIATED">>, <<"EXPIRED", "INITIATED">>}

\* C21: whenever a registry operation changes the status of an existing
\* connection, the old and the new status are one of the transitions of the
\* connection state machine.
C21_StatusFollowsStateMachine ==
  [][\A a \in Apps :
       (StatusIn(appConnections, a) # "missing"
          /\ StatusIn(appConnections', a) # StatusIn(appConnections, a))
       => <<StatusIn(appConnections, a), StatusIn(appConnections', a)>> \in Transitions]_vars

\* C24: between registry operations, what getUserConnections(userId, ACTIVE)
\* returns lists exactly the apps whose registry row of the user is ACTIVE,
\* each with its account id.
C24_ActiveConnectionsListed ==
  LET Active(a) == StatusIn(appConnections, a) = "ACTIVE"
  IN UserConnections(connListCache, appConnections, DbOk(World, TRUE))
       = SelectSeq(AppOrder, Active)

\* C22: after initiate{appName, userId} has returned successfully, the registry
\* holds the row of (userId, appName) with the connected account id the broker
\* issued and the status INITIATED.
C22_InitiateRegisters ==
  (out.done /\ out.val.op = "initiate" /\ out.val.success)
  => GetConnection(appConnections, TRUE, out.val.userId, out.val.appName)
       = ConnRow(out.val.userId, out.val.appName, out.val.connectedAccountId, "INITIATED")

\* the callback that has just returned came with a user and an app, and the
\* broker reported ACTIVE for its account
Promoting == out'.val.status = "ACTIVE" /\ out'.val.userId # "" /\ out'.val.appName # ""

C25_NoSyntheticSession ==
  [][\A r \in Reqs :
       (req[r].pc = "init" /\ req'[r].pc = "history" /\ ~dbReachable)
       => sessions'[req'[r].ctx] # NoUser]_vars

\* C27: context initialization for a user id, none supplying an email, that
\* runs while the database answers leaves a row of that user in the store.
C27_EmaillessUsersPersisted ==
  [][\A r \in Reqs :
       (req[r].pc = "init" /\ req'[r].pc = "history" /\ dbReachable)
       => users'[req[r].user] # "absent"]_vars

\* C28: context initialization that succeeds for an existing session of the
\* requesting user that had been deactivated leaves the session active in the
\* store.
C28_InactiveSessionReactivated ==
  [][\A r \in Reqs :
       (/\ req[r].pc = "init" /\ req'[r].pc = "history"
        /\ req[r].sid # NoSid /\ req'[r].ctx = req[r].sid
        /\ sessions[req[r].sid] = req[r].user
        /\ ~sessActive[req[r].sid])
       => sessActive'[req[r].sid]]_vars

\* some steps of the plan depend on one another in a circle
HasCycle(plan) ==
  \E S \in SUBSET (1..Len(plan)) :
    S # {} /\ \A i \in S : \E d \in plan[i].dependencies : d \in S

\* a step depends on something that is not the number of an earlier step
RefersForward(plan) ==
  \E i \in 1..Len(plan) : \E d \in plan[i].dependencies : ~(d < plan[i].stepNumber)

\* C26: an analysis whose execution steps depend on one another in a circle,
\* or on a step that is not an earlier one, is answered with the fallback
\* analysis; its plan is not passed on.
C26_CyclicPlanRejected ==
  (out.done /\ (HasCycle(arg) \/ RefersForward(arg)))
  => out.val.fallback /\ out.val.executionSteps # arg

\* C29: in either vector store, every tool a search with appName = A returns
\* comes from a record that an ingestion with appName = A wrote.
C29_SearchNamespaced ==
  out.done =>
    \A t \in out.val.toolNames : <<out.val.appKey, t>> \in ingested[out.val.store]

\* a search of PGVector for GMAIL returned t1 while the index holds t2 of NOTION
C29_Witness ==
  /\ out.done /\ out.val.store = "pgvector" /\ out.val.appKey = "GMAIL"
  /\ out.val.toolNames = {"t1"}
  /\ pgVectors["t2"] = "NOTION"

\* C30: a preparation processes at most 3 of its candidate apps, and no
\* candidate it leaves out has a higher priority (analysis.toolPriorities, 5
\* when absent) than a candidate it processes.
C30_TopThreeByPriority ==
  (out.done /\ arg.recommendedApps # << >>) =>
    LET candidates == Range(AppNamesOf(arg))
        processed == Range(out.val.prep.prioritizedApps)
        Priority(a) == IF arg.toolPriorities[a] = NoPriority THEN DefaultPriority
                       ELSE arg.toolPriorities[a]
    IN /\ Len(out.val.prep.prioritizedApps) <= TopApps
       /\ Cardinality(processed) = Min(TopApps, Cardinality(candidates))
       /\ processed \subseteq candidates
       /\ \A c \in candidates \ processed, q \in processed : Priority(c) <= Priority(q)

\* four candidates: NOTION, of priority 9, is processed first and GMAIL, of
\* priority 2, is left out
C30_Witness ==
  /\ out.done /\ arg.recommendedApps # << >>
  /\ Len(AppNamesOf(arg)) = 4
  /\ arg.toolPriorities["GMAIL"] = LowPriority
  /\ arg.toolPriorities["NOTION"] = HighPriority
  /\ out.val.prep.prioritizedApps = <<"NOTION", "GOOGLEDRIVE", "GOOGLEDOCS">>

\* C31: the per-app preparations are joined with all-settled semantics: the
\* preparation returns whatever fails for an app, an app whose status call,
\* vector search or tool fetch fails contributes no tools, and every other
\* app with a usable connection and tools found contributes its tools.
C31_FailuresDoNotAbort ==
  out.done =>
    /\ ~out.val.thrown
    /\ \A a \in Range(JoinApps) :
         LET failed == \/ brokerStatus[a] = Unreachable
                       \/ arg.search[a] = "throws"
                       \/ arg.fetch[a] = "throws"
         IN /\ failed => a \notin out.val.tools
            /\ (~failed /\ StatusUsable(brokerStatus[a]) /\ arg.search[a] = "found")
                 => a \in out.val.tools

\* the status call of GMAIL throws, the search of GOOGLEDRIVE throws, and the
\* tools of NOTION are returned
C31_Witness ==
  /\ out.done
  /\ brokerStatus["GMAIL"] = Unreachable
  /\ brokerStatus["GOOGLEDRIVE"] = "ACTIVE" /\ arg.search["GOOGLEDRIVE"] = "throws"
  /\ out.val.tools = {"NOTION"}

\* C32: enrichParametersWithContext returns an object with the keys of its
\* input in which exactly the top-level strings $step_<id> with a stored
\* result of <id> are replaced by that result; every other value is kept, and
\* the input object and the stored results are as they were.
C32_EnrichFrame ==
  out.done =>
    LET Stored(id) == id \in StoredIds /\ arg.context[id] # NoResult
        Reference(v) == v.type = "string" /\ v.prefix = "$step_"
    IN /\ out.val.parameters = arg.parameters
       /\ out.val.context = arg.context
       /\ DOMAIN out.val.enriched = ParamKeys
       /\ \A k \in ParamKeys :
            LET v == arg.parameters[k]
            IN out.val.enriched[k] =
                 IF Reference(v) /\ Stored(v.rest)
                 THEN [type |-> "result", prefix |-> "", rest |-> arg.context[v.rest]]
                 ELSE v

\* "$step_1" is replaced, "$step_3" of the unknown step 3 is kept
C32_Witness ==
  /\ out.done
  /\ arg.context["1"] = "r1"
  /\ arg.parameters["to"] = [type |-> "string", prefix |-> "$step_", rest |-> "1"]
  /\ arg.parameters["body"] = [type |-> "string", prefix |-> "$step_", rest |-> "3"]
  /\ out.val.enriched["to"].rest = "r1"
  /\ out.val.enriched["body"] = arg.parameters["body"]

\* C33: at process start the store client makes at most 3 connection
\* attempts, waits 1 s after the first failed attempt and 2 s after the
\* second, and after the third failure has stopped with the store unhealthy.
C33_BackoffFromOneSecond ==
  LET c == out.val
  IN /\ c.connectionAttempts <= 3
     /\ Len(c.waits) <= 2
     /\ Len(c.waits) >= 1 => c.waits[1] = 1000
     /\ Len(c.waits) >= 2 => c.waits[2] = 2000
     /\ c.connectionAttempts = 3 => (out.done /\ ~isHealthy)

\* C37: once safeExecute has caught an error of an operation, a safeExecute
\* made while the store is reachable runs its operation and returns its result.
C37_FailureNotSticky ==
  (out.done /\ out.val.caught /\ dbReachable)
    => SafeExecute(World, TRUE).value = "result"

\* C34: while the store answers, getMessagesForSession(sessionId, limit)
\* returns at most limit messages: the limit most recent messages of the most
\* recently created conversation of the session, oldest first.
C34_LatestMessagesReturned ==
  \A s \in SessionIds, limit \in MsgLimits :
    DbOk(World, TRUE) =>
      LET cs == ConvsOf(World, s)
          latest == IF cs = << >> THEN << >> ELSE LatestMessages(World, cs[1], limit)
          ret == GetMessagesForSession(World, s, limit).ret
      IN Len(ret) <= limit /\ ret = latest

\* C35: the session a turn persists into is the session its context
\* initialization resolved, and a turn submitted without a sessionId creates
\* no more than one session.
C35_OneSessionPerTurn ==
  /\ \A r \in Reqs : req[r].pctx # 0 => req[r].pctx = req[r].ctx
  /\ (req[1].sid = NoSid /\ req[1].pc \in {"done", "failed"}
        /\ \A r \in Reqs \ {1} : req[r].pc = "idle")
       => Cardinality({s \in SessionIds : sessions[s] # NoUser}) <= 1

C38_SummaryCacheNotStale ==
  (\A c \in Callers : summaryCalls[c].pc = "idle")
    => (summaryCache # 0 => summaryCache = summary[ClientSid])

\* C40: two analyze calls have the same cache key only if their queries are
\* equal and the first 50 characters of each of their last 3 history
\* contents are equal.
C40_KeyInjective ==
  (out.done /\ out.val.first = out.val.second)
    => /\ arg.first.query = arg.second.query
       /\ HistorySnippets(arg.first.history) = HistorySnippets(arg.second.history)

\* C39: the analysis a turn gets was computed from the data of the user of
\* that turn: it is the fallback analysis or an analysis whose summary is
\* about that user, never one cached for another user's turn.
C39_AnalysisOfOwnUser ==
  out.done => out.val.analysis.subject \in {out.val.user, NoUser}

====
